---- MODULE Spec2Model ----
(***************************************************************************)
(* Model of the local RAG agent (local-agent/src/agent_app): the six-stage *)
(* index graph over the fingerprint table and the vector store, the HTTP   *)
(* index endpoints that drive it, the text chunker, the relevance score    *)
(* and the result fusion.                                                  *)
(***************************************************************************)
EXTENDS Integers, Sequences, FiniteSets, TLC

VARIABLES
    fs,            \* the file system: path -> [content, readable, mtime_ns]
    clock,         \* number of file-system modifications so far (source of mtime_ns)
    known,         \* table "files": path -> row (db.py files)
    store,         \* vector store collection: id -> [document, metadata, embedding]
    pc,            \* position of the index graph: "idle", a node name, "done", "failed"
    s,             \* IndexState of the run in progress
    endpoint,      \* who invoked the graph: "index_full", "index_incremental", "graph"
    resp,          \* what the last invocation returned to its caller
    runs,          \* number of graph invocations so far (source of "now")
    trace,         \* the nodes executed by the current run, in order
    failedAt,      \* node that raised in the current run, or "none"
    knownAtStart,  \* the table "files" when the current run started
    idsAtStart,    \* the ids in the vector store when the current run started
    sentIds,       \* ids passed to col.upsert by the current run
    upsertArgs,    \* the arguments of each col.upsert call of the current run
    embedCalls,    \* embedding provider calls made by the current run
    upsertCalls,   \* col.upsert calls made by the current run
    prev,          \* summary of the last run that reached END
    modSince,      \* TRUE iff the file system changed since that run
    ck,            \* one call of chunk_text: its arguments and its result
    sc,            \* one call of calculate_relevance_score
    mg,            \* one call of merge_and_rank_results
    ws,            \* one request to GET /api/v1/web/search
    qr,            \* one request to POST /api/v1/file/search
    eb,            \* one call of embed_batch on a list of chunk texts
    nz,            \* one call of a normalize_*_results function
    cr             \* the index runs in flight at the same time, each with its own state

indexVars == <<fs, clock, known, store, pc, s, endpoint, resp, runs, trace,
               failedAt, knownAtStart, idsAtStart, sentIds, upsertArgs, embedCalls, upsertCalls,
               prev, modSince>>

pureVars == <<ck, sc, mg, ws, qr, eb, nz, cr>>

vars == <<indexVars, pureVars>>

----------------------------------------------------------------------------
(* Bounds of the model *)

MaxRuns == 2
MaxMods == 1
MaxPartial == 1
MaxChunkTextLen == 420
MaxQueryLen == 3
MaxTextLen == 3
MaxTitleLen == 1
MaxItems == 2
MaxEngines == 2
MaxEmbedTexts == 130

----------------------------------------------------------------------------
(* Generic helpers *)

Max(a, b) == IF a >= b THEN a ELSE b
Min(a, b) == IF a <= b THEN a ELSE b
Range(q) == {q[i] : i \in 1..Len(q)}
EmptyMap == [x \in {} |-> 0]

----------------------------------------------------------------------------
(* chunking.py *)

MinWindowChars == 200
CharsPerToken == 4

\* a slice that always starts at the beginning of the text
SliceFromStart(text, i, j) == [src |-> text.src, from |-> 0, to |-> j]

\* text[i:j] of a text that is known by its source and its length
Slice(text, i, j) == [src |-> text.src, from |-> i, to |-> j]

approx_chars(target_tokens) == Max(MinWindowChars, target_tokens * CharsPerToken)

stride(target_tokens, overlap) ==
    Max(0, approx_chars(target_tokens) - overlap * CharsPerToken)

\* a step of ChunkLoop that adds the overlap instead of subtracting it
ChunkStepGap(target_tokens, overlap) ==
    approx_chars(target_tokens) + overlap * CharsPerToken

\* a step with no fallback: the stride even when it is 0
ChunkStepStride(target_tokens, overlap) == stride(target_tokens, overlap)

\* the step of line 23: stride if stride > 0 else approx_chars
ChunkStep(target_tokens, overlap) ==
    IF stride(target_tokens, overlap) > 0
    THEN stride(target_tokens, overlap)
    ELSE approx_chars(target_tokens)

RECURSIVE ChunkLoop(_, _, _, _, _)
ChunkLoop(text, i, window, step, chunks) ==
    IF ~(i < text.len) THEN chunks
    ELSE LET j == Min(text.len, i + window)
             out == Append(chunks, <<i, j, Slice(text, i, j)>>)
         IN IF j = text.len THEN out
            ELSE ChunkLoop(text, i + step, window, step, out)

chunk_text(text, target_tokens, overlap) ==
    IF text.len = 0 THEN <<>>
    ELSE ChunkLoop(text, 0, approx_chars(target_tokens),
                   ChunkStep(target_tokens, overlap), <<>>)

----------------------------------------------------------------------------
(* The file system the index graph walks *)

Paths == {"docs/a.txt", "docs/sub/b.md"}
StaticFiles == {"docs/notes.bin"}
\* rglob order of a directory walk
WalkOrder == <<"docs/a.txt", "docs/notes.bin", "docs/sub/b.md">>

Contents == {"c0", "c1", "c2"}
\* length of the file's text (and of its bytes: the files are plain text)
TextLen(c) == CASE c = "c0" -> 0 [] c = "c1" -> 100 [] c = "c2" -> 7000

ExistingRoots == {"docs", "docs/sub"}
Tree(root) == CASE root = "docs" -> {"docs/a.txt", "docs/notes.bin", "docs/sub/b.md"}
                [] root = "docs/sub" -> {"docs/sub/b.md"}
                [] OTHER -> {}

RootLists == {<<"docs">>, <<"docs/sub", "docs">>, <<"missing">>}

Suffix(p) == CASE p = "docs/a.txt" -> ".txt"
               [] p = "docs/sub/b.md" -> ".md"
               [] p = "docs/notes.bin" -> ".bin"
               [] p = "uploaded_files/u.txt" -> ".txt"
               [] p = "uploaded_files/w.bin" -> ".bin"

INDEX_EXTS == {".txt", ".md", ".pdf", ".doc", ".docx", ".ppt", ".pptx",
               ".xls", ".xlsx", ".csv", ".json", ".xml", ".html", ".htm"}

is_supported_file(p) == Suffix(p) \in INDEX_EXTS

GuessMime(p) == CASE Suffix(p) = ".txt" -> "text/plain"
                  [] Suffix(p) = ".md" -> "text/markdown"
                  [] OTHER -> "application/octet-stream"

IsFile(p) == p \in DOMAIN fs \/ p \in StaticFiles

\* a fingerprint with no fallback: the hash of bytes that were never read
FingerprintNoFallback(p) == <<"sha256", fs[p].content, 0, 0>>

\* sha256 of the bytes, or the weak signature when the bytes cannot be read
Fingerprint(p) ==
    IF fs[p].readable
    THEN <<"sha256", fs[p].content, 0, 0>>
    ELSE <<"sig", "", TextLen(fs[p].content), fs[p].mtime_ns>>

FileEntry(p) ==
    [path |-> p, bytes |-> TextLen(fs[p].content), mtime_ns |-> fs[p].mtime_ns,
     sha256 |-> Fingerprint(p), mime |-> GuessMime(p), ext |-> Suffix(p)]

\* readers.read_text_str: the text, "" when reading fails
read_text_str(p) ==
    IF p \in DOMAIN fs /\ fs[p].readable
    THEN [src |-> fs[p].content, len |-> TextLen(fs[p].content)]
    ELSE [src |-> "", len |-> 0]

----------------------------------------------------------------------------
(* graphs/index_graph.py: the nodes as functions of the run state *)

TargetTokens == 800
OverlapTokens == 80
B == 64

RECURSIVE DiscoverFiles(_)
DiscoverFiles(roots) ==
    IF roots = <<>> THEN <<>>
    ELSE LET root == Head(roots)
             found == IF root \notin ExistingRoots THEN <<>>
                      ELSE SelectSeq(WalkOrder,
                               LAMBDA p : p \in Tree(root) /\ IsFile(p)
                                          /\ is_supported_file(p))
         IN [i \in 1..Len(found) |-> FileEntry(found[i])] \o DiscoverFiles(Tail(roots))

\* diff() that compares paths only, never fingerprints
DiffPathOnly(files, mode, force_reembed, table) ==
    IF force_reembed THEN files
    ELSE SelectSeq(files, LAMBDA f : mode = "full" \/ f.path \notin DOMAIN table)

\* diff() that forgets mode == "full"
DiffForceOnly(files, mode, force_reembed, table) ==
    IF force_reembed THEN files
    ELSE SelectSeq(files, LAMBDA f : \/ f.path \notin DOMAIN table
                                     \/ table[f.path].sha256 # f.sha256)

\* the changed subset of diff(): table is the SELECT path, sha256 FROM files
DiffChanged(files, mode, force_reembed, table) ==
    IF force_reembed THEN files
    ELSE SelectSeq(files, LAMBDA f : \/ mode = "full"
                                     \/ f.path \notin DOMAIN table
                                     \/ table[f.path].sha256 # f.sha256)

\* a parse stage that skips the empty files without recording them
ParseErrorsSilent(changed) == <<>>

ParseErrors(changed) ==
    LET empty == SelectSeq(changed, LAMBDA f : read_text_str(f.path).len = 0)
    IN [i \in 1..Len(empty) |-> <<"parse-empty", empty[i].path>>]

ChunksOfFile(f) ==
    LET spans == chunk_text(read_text_str(f.path), TargetTokens, OverlapTokens)
    IN [i \in 1..Len(spans) |->
          [file |-> f, chunk_idx |-> i - 1, char_start |-> spans[i][1],
           char_end |-> spans[i][2], text |-> spans[i][3]]]

RECURSIVE ParseChunks(_)
ParseChunks(changed) ==
    IF changed = <<>> THEN <<>>
    ELSE ChunksOfFile(Head(changed)) \o ParseChunks(Tail(changed))

\* what the embedding provider returns for one text
EmbedText(text) == <<"vec", text>>

NumBatches(n) == (n + B - 1) \div B

\* the batches texts[i:i+B] the loop sends, in the order it sends them
RECURSIVE EmbedBatches(_, _)
EmbedBatches(texts, i) ==
    IF i > Len(texts) THEN <<>>
    ELSE <<SubSeq(texts, i, Min(Len(texts), i + B - 1))>> \o EmbedBatches(texts, i + B)

\* a loop that puts each batch's vectors in front of the earlier ones
RECURSIVE EmbedAllPrepending(_, _)
EmbedAllPrepending(texts, i) ==
    IF i > Len(texts) THEN <<>>
    ELSE LET batch == SubSeq(texts, i, Min(Len(texts), i + B - 1))
         IN EmbedAllPrepending(texts, i + B) \o [k \in 1..Len(batch) |-> EmbedText(batch[k])]

\* for i in range(0, len(texts), B): vecs.extend(embed_texts(texts[i:i+B]))
RECURSIVE EmbedAll(_, _)
EmbedAll(texts, i) ==
    IF i > Len(texts) THEN <<>>
    ELSE LET batch == SubSeq(texts, i, Min(Len(texts), i + B - 1))
         IN [k \in 1..Len(batch) |-> EmbedText(batch[k])] \o EmbedAll(texts, i + B)

\* an id that also depends on the run that wrote it
VectorIdPerRun(f, chunk_idx) == <<f.sha256, chunk_idx, runs>>

VectorId(f, chunk_idx) == <<f.sha256, chunk_idx>>

UpsertIds(chunks) == [i \in 1..Len(chunks) |-> VectorId(chunks[i].file, chunks[i].chunk_idx)]

UpsertMeta(c, model) ==
    [path |-> c.file.path, sha256 |-> c.file.sha256, chunk_idx |-> c.chunk_idx,
     mime |-> c.file.mime, ext |-> c.file.ext, mtime_ns |-> c.file.mtime_ns,
     embedding_model |-> model]

\* documents with the last chunk's text first
UpsertDocsReversed(chunks) == [i \in 1..Len(chunks) |-> chunks[Len(chunks) + 1 - i].text]

\* docs.append(c["text"])
UpsertDocs(chunks) == [i \in 1..Len(chunks) |-> chunks[i].text]

UpsertMetas(chunks, model) == [i \in 1..Len(chunks) |-> UpsertMeta(chunks[i], model)]

\* col.upsert(ids=ids, documents=docs, metadatas=metas, embeddings=s.get("embeddings"))
UpsertCall(chunks, embeddings) ==
    [ids |-> UpsertIds(chunks), documents |-> UpsertDocs(chunks),
     metadatas |-> UpsertMetas(chunks, "default"), embeddings |-> embeddings]

\* a collection that stores every entry it is sent under a key of its own
RECURSIVE StoreUpsertAppending(_, _, _)
StoreUpsertAppending(col, call, n) ==
    IF n = 0 THEN col
    ELSE LET before == StoreUpsertAppending(col, call, n - 1)
             key == <<call.ids[n], Cardinality(DOMAIN before)>>
             rec == [document |-> call.documents[n],
                     metadata |-> call.metadatas[n],
                     embedding |-> call.embeddings[n]]
         IN [v \in DOMAIN before \cup {key} |-> IF v = key THEN rec ELSE before[v]]

\* an upsert that first deletes the records held for the paths it is sent
RECURSIVE StoreUpsertReplacingPath(_, _, _)
StoreUpsertReplacingPath(col, call, n) ==
    IF n = 0 THEN col
    ELSE LET before == StoreUpsertReplacingPath(col, call, n - 1)
             rec == [document |-> call.documents[n],
                     metadata |-> call.metadatas[n],
                     embedding |-> call.embeddings[n]]
             kept == {v \in DOMAIN before :
                         \/ before[v].metadata.path # rec.metadata.path
                         \/ before[v].metadata.sha256 = rec.metadata.sha256}
         IN [v \in kept \cup {call.ids[n]} |->
               IF v = call.ids[n] THEN rec ELSE before[v]]

\* collection.upsert of the first n entries of the parallel arrays, in order
RECURSIVE StoreUpsert(_, _, _)
StoreUpsert(col, call, n) ==
    IF n = 0 THEN col
    ELSE LET before == StoreUpsert(col, call, n - 1)
             rec == [document |-> call.documents[n],
                     metadata |-> call.metadatas[n],
                     embedding |-> call.embeddings[n]]
         IN [v \in DOMAIN before \cup {call.ids[n]} |->
               IF v = call.ids[n] THEN rec ELSE before[v]]

\* a row that stores the weak signature where the fingerprint belongs
FileRowWeakSig(f, now) ==
    [bytes |-> f.bytes, mtime_ns |-> f.mtime_ns,
     sha256 |-> <<"sig", "", f.bytes, f.mtime_ns>>,
     mime |-> f.mime, last_indexed_at |-> now]

FileRow(f, now) ==
    [bytes |-> f.bytes, mtime_ns |-> f.mtime_ns, sha256 |-> f.sha256,
     mime |-> f.mime, last_indexed_at |-> now]

\* commit_run that skips the files recorded as parse-empty
CommitSetParsedOnly(changed, errors) ==
    SelectSeq(changed, LAMBDA f : \A i \in 1..Len(errors) : errors[i][2] # f.path)

\* the files commit_run writes a row for
CommitSet(changed, errors) == changed

\* a commit that replaces the table by the rows of the current run
CommitRowsReplacing(table, files, now, n) ==
    [q \in {files[i].path : i \in 1..n} |->
       FileRow(files[CHOOSE i \in 1..n : files[i].path = q], now)]

\* INSERT ... ON CONFLICT(path) DO UPDATE for the first n files, in order
RECURSIVE CommitRows(_, _, _, _)
CommitRows(table, files, now, n) ==
    IF n = 0 THEN table
    ELSE LET before == CommitRows(table, files, now, n - 1)
             f == files[n]
         IN [q \in DOMAIN before \cup {f.path} |->
               IF q = f.path THEN FileRow(f, now) ELSE before[q]]

\* a graph that detects changes before it discovers the files
NextNodeDiffFirst(node) ==
    CASE node = "START" -> "diff"
      [] node = "diff" -> "discover"
      [] node = "discover" -> "parse_chunk"
      [] node = "parse_chunk" -> "embed_batch"
      [] node = "embed_batch" -> "upsert_vectors"
      [] node = "upsert_vectors" -> "commit_run"
      [] node = "commit_run" -> "END"

\* a graph that commits before it embeds
NextNodeCommitEarly(node) ==
    CASE node = "START" -> "discover"
      [] node = "discover" -> "diff"
      [] node = "diff" -> "parse_chunk"
      [] node = "parse_chunk" -> "commit_run"
      [] node = "commit_run" -> "embed_batch"
      [] node = "embed_batch" -> "upsert_vectors"
      [] node = "upsert_vectors" -> "END"

\* build_graph: the edge leaving each node
NextNode(node) ==
    CASE node = "START" -> "discover"
      [] node = "discover" -> "diff"
      [] node = "diff" -> "parse_chunk"
      [] node = "parse_chunk" -> "embed_batch"
      [] node = "embed_batch" -> "upsert_vectors"
      [] node = "upsert_vectors" -> "commit_run"
      [] node = "commit_run" -> "END"

Goto(node) == IF NextNode(node) = "END" THEN "done" ELSE NextNode(node)

----------------------------------------------------------------------------
(* The run state and the initial state *)

NoState ==
    [mode |-> "incremental", roots |-> <<>>, force_reembed |-> FALSE,
     files |-> <<>>, changed |-> <<>>, chunks |-> <<>>, embeddings |-> <<>>,
     stats |-> EmptyMap, errors |-> <<>>]

NoResp ==
    [endpoint |-> "none", status |-> 0, roots |-> <<>>, force |-> FALSE,
     graph_ok |-> FALSE, log_ok |-> FALSE,
     scanned_files |-> {}, changed_files |-> {}, unchanged_files |-> {},
     stats |-> EmptyMap, errors |-> <<>>]

NoPrev ==
    [valid |-> FALSE, endpoint |-> "none", status |-> 0, roots |-> <<>>,
     mode |-> "incremental", force |-> FALSE, changed |-> <<>>,
     empty |-> {}, sentIds |-> {}]

\* the documents directory when the service starts: a long text file and an
\* empty one; every other file set is reached by the edits below
InitFiles ==
    [p \in Paths |-> [content |-> IF p = "docs/a.txt" THEN "c2" ELSE "c0",
                      readable |-> TRUE, mtime_ns |-> 0]]

IndexIdle ==
    /\ clock = 0
    /\ known = EmptyMap
    /\ store = EmptyMap
    /\ pc = "idle"
    /\ s = NoState
    /\ endpoint = "none"
    /\ resp = NoResp
    /\ runs = 0
    /\ trace = <<>>
    /\ failedAt = "none"
    /\ knownAtStart = EmptyMap
    /\ idsAtStart = {}
    /\ sentIds = {}
    /\ upsertArgs = <<>>
    /\ embedCalls = 0
    /\ upsertCalls = 0
    /\ prev = NoPrev
    /\ modSince = FALSE

NoCall == [state |-> "none"]

PureIdle ==
    /\ ck = NoCall /\ sc = NoCall /\ mg = NoCall /\ ws = NoCall /\ qr = NoCall
    /\ eb = NoCall /\ nz = NoCall /\ cr = NoCall

Init ==
    /\ fs = InitFiles
    /\ IndexIdle
    /\ PureIdle

----------------------------------------------------------------------------
(* The environment edits the file system between runs *)

Touch == /\ clock' = clock + 1
         /\ modSince' = TRUE
         /\ UNCHANGED pureVars
         /\ UNCHANGED <<known, store, pc, s, endpoint, resp, runs, trace, failedAt,
                        knownAtStart, idsAtStart, sentIds, upsertArgs, embedCalls, upsertCalls, prev>>

WriteFile(p, c) ==
    /\ pc = "idle" /\ clock < MaxMods
    /\ p \in DOMAIN fs => fs[p].content # c
    /\ fs' = [q \in DOMAIN fs \cup {p} |->
                IF q = p THEN [content |-> c,
                               readable |-> IF p \in DOMAIN fs THEN fs[p].readable ELSE TRUE,
                               mtime_ns |-> clock + 1]
                ELSE fs[q]]
    /\ Touch

RemoveFile(p) ==
    /\ pc = "idle" /\ clock < MaxMods
    /\ p \in DOMAIN fs
    /\ fs' = [q \in DOMAIN fs \ {p} |-> fs[q]]
    /\ Touch

\* chmod: the bytes can or cannot be read from now on
ChmodFile(p) ==
    /\ pc = "idle" /\ clock < MaxMods
    /\ p \in DOMAIN fs
    /\ fs' = [fs EXCEPT ![p].readable = ~@]
    /\ Touch

----------------------------------------------------------------------------
(* main.py: the callers of the index graph *)

\* graph.ainvoke(state): a new run over a fresh state record
Invoke(who, roots, mode, force) ==
    /\ pc = "idle" /\ runs < MaxRuns
    /\ runs' = runs + 1
    /\ endpoint' = who
    /\ s' = [NoState EXCEPT !.mode = mode, !.roots = roots, !.force_reembed = force]
    /\ pc' = NextNode("START")
    /\ trace' = <<>>
    /\ failedAt' = "none"
    /\ knownAtStart' = known
    /\ idsAtStart' = DOMAIN store
    /\ sentIds' = {}
    /\ upsertArgs' = <<>>
    /\ embedCalls' = 0
    /\ upsertCalls' = 0
    /\ UNCHANGED <<fs, clock, known, store, resp, prev, modSince, pureVars>>

\* if not roots: raise HTTPException(400, "No roots provided")
Reject(who, roots, force, status) ==
    /\ pc = "idle" /\ runs < MaxRuns
    /\ runs' = runs + 1
    /\ resp' = [NoResp EXCEPT !.endpoint = who, !.status = status,
                              !.roots = roots, !.force = force]
    /\ UNCHANGED <<fs, clock, known, store, pc, s, endpoint, trace, failedAt,
                   knownAtStart, idsAtStart, sentIds, upsertArgs, embedCalls, upsertCalls, prev, modSince,
                   pureVars>>

IndexFullStart(roots) ==
    IF roots = <<>> THEN Reject("index_full", roots, TRUE, 400)
    ELSE Invoke("index_full", roots, "full", TRUE)

\* the HTTPException(400) is raised inside the try and caught by except Exception
IndexIncrementalStart(roots, force) ==
    IF roots = <<>> THEN Reject("index_incremental", roots, force, 500)
    ELSE Invoke("index_incremental", roots, "incremental", force)

\* index_graph_api invoked directly with any state
GraphStart(roots, mode, force) == Invoke("graph", roots, mode, force)

----------------------------------------------------------------------------
(* graphs/index_graph.py: the nodes as steps of the compiled graph *)

SetStat(stats, key, n) ==
    [x \in DOMAIN stats \cup {key} |-> IF x = key THEN n ELSE stats[x]]

\* the node returned: follow its edge
Returned(node) ==
    /\ pc' = Goto(node)
    /\ trace' = Append(trace, node)
    /\ failedAt' = failedAt
    /\ UNCHANGED pureVars

\* the node raised: the run aborts, no node runs after it
Raised(node) ==
    /\ pc' = "failed"
    /\ trace' = Append(trace, node)
    /\ failedAt' = node
    /\ UNCHANGED pureVars

Discover ==
    /\ pc = "discover"
    /\ LET files == DiscoverFiles(s.roots)
       IN s' = [s EXCEPT !.files = files,
                         !.stats = SetStat(@, "discovered", Len(files))]
    /\ Returned("discover")
    /\ UNCHANGED <<fs, clock, known, store, endpoint, resp, runs, knownAtStart, idsAtStart,
                   sentIds, upsertArgs, embedCalls, upsertCalls, prev, modSince>>

Diff ==
    /\ pc = "diff"
    /\ LET changed == DiffChanged(s.files, s.mode, s.force_reembed, known)
       IN s' = [s EXCEPT !.changed = changed,
                         !.stats = SetStat(@, "changed", Len(changed))]
    /\ Returned("diff")
    /\ UNCHANGED <<fs, clock, known, store, endpoint, resp, runs, knownAtStart, idsAtStart,
                   sentIds, upsertArgs, embedCalls, upsertCalls, prev, modSince>>

ParseChunk ==
    /\ pc = "parse_chunk"
    /\ LET chunks == ParseChunks(s.changed)
       IN s' = [s EXCEPT !.errors = @ \o ParseErrors(s.changed),
                         !.chunks = chunks,
                         !.stats = SetStat(@, "chunks", Len(chunks))]
    /\ Returned("parse_chunk")
    /\ UNCHANGED <<fs, clock, known, store, endpoint, resp, runs, knownAtStart, idsAtStart,
                   sentIds, upsertArgs, embedCalls, upsertCalls, prev, modSince>>

ChunkTexts == [i \in 1..Len(s.chunks) |-> s.chunks[i].text]

\* an embed stage that builds the provider and sends a request even when
\* there is no chunk
EmbedBatchEager ==
    /\ pc = "embed_batch"
    /\ s' = [s EXCEPT !.embeddings = IF s.chunks = <<>> THEN <<>> ELSE EmbedAll(ChunkTexts, 1)]
    /\ embedCalls' = embedCalls + Max(1, NumBatches(Len(s.chunks)))
    /\ Returned("embed_batch")
    /\ UNCHANGED <<fs, clock, known, store, endpoint, resp, runs, knownAtStart, idsAtStart,
                   sentIds, upsertArgs, upsertCalls, prev, modSince>>

EmbedBatch ==
    /\ pc = "embed_batch"
    /\ IF s.chunks = <<>>
       THEN /\ s' = [s EXCEPT !.embeddings = <<>>]
            /\ embedCalls' = embedCalls
       ELSE /\ s' = [s EXCEPT !.embeddings = EmbedAll(ChunkTexts, 1)]
            /\ embedCalls' = embedCalls + NumBatches(Len(s.chunks))
    /\ Returned("embed_batch")
    /\ UNCHANGED <<fs, clock, known, store, endpoint, resp, runs, knownAtStart, idsAtStart,
                   sentIds, upsertArgs, upsertCalls, prev, modSince>>

\* the provider raises in its k-th call of this run
EmbedBatchRaises(k) ==
    /\ pc = "embed_batch"
    /\ s.chunks # <<>>
    /\ k \in 1..NumBatches(Len(s.chunks))
    /\ embedCalls' = embedCalls + k
    /\ Raised("embed_batch")
    /\ UNCHANGED <<fs, clock, known, store, s, endpoint, resp, runs, knownAtStart, idsAtStart,
                   sentIds, upsertArgs, upsertCalls, prev, modSince>>

\* an upsert stage that calls col.upsert even when it has no id to send
UpsertVectorsAlways ==
    /\ pc = "upsert_vectors"
    /\ LET ids == UpsertIds(s.chunks)
       IN /\ store' = StoreUpsert(store, UpsertCall(s.chunks, s.embeddings), Len(ids))
          /\ upsertCalls' = upsertCalls + 1
          /\ sentIds' = sentIds \cup Range(ids)
          /\ upsertArgs' = Append(upsertArgs, UpsertCall(s.chunks, s.embeddings))
          /\ s' = [s EXCEPT !.stats = SetStat(@, "upserted", Len(ids))]
    /\ Returned("upsert_vectors")
    /\ UNCHANGED <<fs, clock, known, endpoint, resp, runs, knownAtStart, idsAtStart,
                   embedCalls, prev, modSince>>

UpsertVectors ==
    /\ pc = "upsert_vectors"
    /\ LET ids == UpsertIds(s.chunks)
       IN /\ IF ids # <<>>
             THEN /\ store' = StoreUpsert(store, UpsertCall(s.chunks, s.embeddings), Len(ids))
                  /\ upsertCalls' = upsertCalls + 1
                  /\ sentIds' = sentIds \cup Range(ids)
                  /\ upsertArgs' = Append(upsertArgs, UpsertCall(s.chunks, s.embeddings))
             ELSE UNCHANGED <<store, upsertCalls, sentIds, upsertArgs>>
          /\ s' = [s EXCEPT !.stats = SetStat(@, "upserted", Len(ids))]
    /\ Returned("upsert_vectors")
    /\ UNCHANGED <<fs, clock, known, endpoint, resp, runs, knownAtStart, idsAtStart,
                   embedCalls, prev, modSince>>

\* col.upsert raises after the store took the first n records of the batch
UpsertVectorsRaises(n) ==
    /\ pc = "upsert_vectors"
    /\ LET ids == UpsertIds(s.chunks)
       IN /\ ids # <<>>
          /\ n \in 0..Min(MaxPartial, Len(ids) - 1)
          /\ store' = StoreUpsert(store, UpsertCall(s.chunks, s.embeddings), n)
          /\ sentIds' = sentIds \cup Range(ids)
          /\ upsertArgs' = Append(upsertArgs, UpsertCall(s.chunks, s.embeddings))
    /\ upsertCalls' = upsertCalls + 1
    /\ Raised("upsert_vectors")
    /\ UNCHANGED <<fs, clock, known, s, endpoint, resp, runs, knownAtStart, idsAtStart,
                   embedCalls, prev, modSince>>

\* get_collection() raises: no call reaches the store
GetCollectionRaises ==
    /\ pc = "upsert_vectors"
    /\ Raised("upsert_vectors")
    /\ UNCHANGED <<fs, clock, known, store, s, endpoint, resp, runs, knownAtStart, idsAtStart,
                   sentIds, upsertArgs, embedCalls, upsertCalls, prev, modSince>>

CommitRun ==
    /\ pc = "commit_run"
    /\ LET files == CommitSet(s.changed, s.errors)
       IN known' = CommitRows(known, files, runs, Len(files))
    /\ Returned("commit_run")
    /\ UNCHANGED <<fs, clock, store, s, endpoint, resp, runs, knownAtStart, idsAtStart,
                   sentIds, upsertArgs, embedCalls, upsertCalls, prev, modSince>>

\* the session raises before db.commit(): the transaction is rolled back
CommitRunRaises ==
    /\ pc = "commit_run"
    /\ Raised("commit_run")
    /\ UNCHANGED <<fs, clock, known, store, s, endpoint, resp, runs, knownAtStart, idsAtStart,
                   sentIds, upsertArgs, embedCalls, upsertCalls, prev, modSince>>

----------------------------------------------------------------------------
(* main.py: what the callers make of the result *)

PathsOf(files) == {files[i].path : i \in 1..Len(files)}

EmptyPaths(errors) == {errors[i][2] : i \in 1..Len(errors)}

\* rf_counter is defined nowhere: calling it raises NameError
rf_counter == "NameError"

\* a 200 carries the result; an error carries the status (graph_ok and log_ok
\* record which calls of the handler had returned)
Body(who, status, logOk) ==
    IF status = 200
    THEN [endpoint |-> who, status |-> status, roots |-> s.roots,
          force |-> s.force_reembed, graph_ok |-> TRUE, log_ok |-> logOk,
          scanned_files |-> PathsOf(s.files),
          changed_files |-> PathsOf(s.changed),
          unchanged_files |-> PathsOf(s.files) \ PathsOf(s.changed),
          stats |-> s.stats, errors |-> s.errors]
    ELSE [NoResp EXCEPT !.endpoint = who, !.status = status,
                        !.graph_ok = (pc = "done"), !.log_ok = logOk]

Return(who, status, logOk) ==
    /\ pc \in {"done", "failed"}
    /\ endpoint = who
    /\ resp' = Body(who, status, logOk)
    /\ pc' = "idle"
    /\ IF pc = "done"
       THEN /\ prev' = [valid |-> TRUE, endpoint |-> who, status |-> status,
                        roots |-> s.roots, mode |-> s.mode,
                        force |-> s.force_reembed, changed |-> s.changed,
                        empty |-> EmptyPaths(s.errors), sentIds |-> sentIds]
            /\ modSince' = FALSE
       ELSE UNCHANGED <<prev, modSince>>
    /\ s' = NoState
    /\ endpoint' = "none"
    /\ trace' = <<>>
    /\ failedAt' = "none"
    /\ knownAtStart' = EmptyMap
    /\ idsAtStart' = {}
    /\ sentIds' = {}
    /\ upsertArgs' = <<>>
    /\ embedCalls' = 0
    /\ upsertCalls' = 0
    /\ UNCHANGED <<fs, clock, known, store, runs, pureVars>>

\* index_full: no try; ainvoke's and log_api_event's exceptions reach the server
IndexFullStatus(logOk) ==
    IF pc = "failed" THEN 500
    ELSE IF ~logOk THEN 500
    ELSE 200

IndexFullReturn(logOk) == Return("index_full", IndexFullStatus(logOk), logOk)

\* index_incremental: everything inside try/except Exception -> HTTPException(500)
IndexIncrementalStatus(logOk) ==
    IF pc = "failed" THEN 500
    ELSE IF ~logOk THEN 500
    ELSE IF rf_counter = "NameError" THEN 500
    ELSE 200

IndexIncrementalReturn(logOk) ==
    Return("index_incremental", IndexIncrementalStatus(logOk), logOk)

\* ainvoke returns the final state, or raises what the node raised
GraphStatus == IF pc = "done" THEN 200 ELSE 500

GraphReturn == Return("graph", GraphStatus, TRUE)

----------------------------------------------------------------------------
(* The specification of the index pipeline *)

Modify ==
    \/ \E p \in Paths, c \in Contents : WriteFile(p, c)
    \/ \E p \in Paths : RemoveFile(p)
    \/ \E p \in Paths : ChmodFile(p)

Nodes ==
    \/ Discover
    \/ Diff
    \/ ParseChunk
    \/ EmbedBatch
    \/ UpsertVectors
    \/ CommitRun

NodeRaises ==
    \/ \E k \in 1..NumBatches(Len(s.chunks)) : EmbedBatchRaises(k)
    \/ \E n \in 0..MaxPartial : UpsertVectorsRaises(n)
    \/ GetCollectionRaises
    \/ CommitRunRaises

Next ==
    \/ Modify
    \/ \E roots \in RootLists, mode \in {"full", "incremental"}, force \in BOOLEAN :
          GraphStart(roots, mode, force)
    \/ Nodes
    \/ NodeRaises
    \/ GraphReturn

Spec == Init /\ [][Next]_vars

(* The HTTP endpoints over a quiet file system and healthy providers *)

ApiRootLists == RootLists \cup {<<>>}

NextApi ==
    \/ \E roots \in ApiRootLists : IndexFullStart(roots)
    \/ \E roots \in ApiRootLists, force \in BOOLEAN : IndexIncrementalStart(roots, force)
    \/ Nodes
    \/ \E logOk \in BOOLEAN : IndexFullReturn(logOk)
    \/ \E logOk \in BOOLEAN : IndexIncrementalReturn(logOk)

SpecApi == Init /\ [][NextApi]_vars

----------------------------------------------------------------------------
(* Claims about the index pipeline, checked under Spec *)

Diffed == "changed" \in DOMAIN s.stats

PlainIncremental == s.mode = "incremental" /\ ~s.force_reembed

Count(q, x) == Cardinality({i \in 1..Len(q) : q[i] = x})

\* C1: after a successful incremental, non-forced run and no change of the
\* file system, the next incremental, non-forced run over the same roots
\* computes an empty changed subset (stats.changed = 0), parse-empty files
\* of the first run included.
C1_RepeatedIncrementalIsEmpty ==
    (/\ Diffed /\ PlainIncremental
     /\ prev.valid /\ prev.mode = "incremental" /\ ~prev.force
     /\ prev.roots = s.roots /\ ~modSince)
    => (s.changed = <<>> /\ s.stats["changed"] = 0)

C1_Witness ==
    /\ Diffed /\ PlainIncremental
    /\ prev.valid /\ prev.mode = "incremental" /\ ~prev.force
    /\ prev.roots = s.roots /\ ~modSince
    /\ prev.changed # <<>> /\ prev.empty # {}
    /\ s.files # <<>>

\* C2: when the embed stage or the upsert stage raises, the run aborts: the
\* stage ran once (no retry), nothing ran after it, commit never ran, every
\* caller gets an error, and the fingerprint table is as it was before the run.
C2_FailedRunCommitsNothing ==
    (pc = "failed" /\ failedAt \in {"embed_batch", "upsert_vectors"})
    => (/\ known = knownAtStart
        /\ Count(trace, "commit_run") = 0
        /\ Count(trace, failedAt) = 1
        /\ trace[Len(trace)] = failedAt
        /\ embedCalls <= NumBatches(Len(s.chunks))
        /\ upsertCalls <= 1
        /\ GraphStatus # 200
        /\ \A logOk \in BOOLEAN : /\ IndexFullStatus(logOk) # 200
                                  /\ IndexIncrementalStatus(logOk) # 200)

C2_Witness ==
    /\ pc = "failed" /\ failedAt = "upsert_vectors"
    /\ s.changed # <<>>
    /\ DOMAIN store # idsAtStart
    /\ \E i \in 1..Len(s.changed) : s.changed[i].path \notin DOMAIN known

\* C3: a run that re-embeds (force, or mode full) the files a previous run
\* indexed, their content unchanged, sends the same set of ids to the vector
\* store as that run did and leaves the number of records as it was.
C3_ReindexSameIds ==
    (/\ pc = "done" /\ (s.force_reembed \/ s.mode = "full")
     /\ prev.valid /\ ~modSince
     /\ PathsOf(prev.changed) = PathsOf(s.changed))
    => (/\ sentIds = prev.sentIds
        /\ Cardinality(DOMAIN store) = Cardinality(idsAtStart))

C3_Witness ==
    /\ pc = "done" /\ (s.force_reembed \/ s.mode = "full")
    /\ prev.valid /\ ~modSince
    /\ PathsOf(prev.changed) = PathsOf(s.changed)
    /\ Cardinality(sentIds) > 1
    /\ upsertCalls = 1

\* C4: with mode incremental and no force, a discovered file is in the
\* changed subset iff its path is absent from the fingerprint table or its
\* persisted fingerprint differs from the fresh one; nothing else is in it.
C4_DiffIsExact ==
    (Diffed /\ PlainIncremental)
    => (/\ \A i \in 1..Len(s.files) :
              (s.files[i] \in Range(s.changed))
              <=> (\/ s.files[i].path \notin DOMAIN knownAtStart
                   \/ knownAtStart[s.files[i].path].sha256 # s.files[i].sha256)
        /\ Range(s.changed) \subseteq Range(s.files))

C4_Witness ==
    /\ Diffed /\ PlainIncremental
    /\ \E i \in 1..Len(s.files) :
          /\ s.files[i].path \in DOMAIN knownAtStart
          /\ knownAtStart[s.files[i].path].sha256 # s.files[i].sha256
          /\ s.files[i] \in Range(s.changed)
    /\ \E i \in 1..Len(s.files) : s.files[i] \notin Range(s.changed)

\* C5: with force (any mode) or with mode full (any force flag) the changed
\* subset is the whole discovered list, whatever the fingerprint table holds.
C5_ForceOrFullTakesAll ==
    (Diffed /\ (s.force_reembed \/ s.mode = "full")) => s.changed = s.files

C5_Witness ==
    /\ Diffed /\ s.mode = "full" /\ ~s.force_reembed
    /\ s.files # <<>>
    /\ \A i \in 1..Len(s.files) :
          /\ s.files[i].path \in DOMAIN knownAtStart
          /\ knownAtStart[s.files[i].path].sha256 = s.files[i].sha256
    /\ s.changed = s.files

\* C6: at the end of a successful run every file of the changed subset has a
\* row whose fingerprint is the one discovered in this run, parse-empty files
\* included; and a file that the last successful run recorded as parse-empty
\* is not in the changed subset of a later incremental, non-forced run while
\* its fingerprint is the same.
C6_CommitCoversChangedSubset ==
    /\ pc = "done"
       => \A i \in 1..Len(s.changed) :
             /\ s.changed[i].path \in DOMAIN known
             /\ known[s.changed[i].path].sha256 = s.changed[i].sha256
    /\ (Diffed /\ PlainIncremental /\ prev.valid)
       => \A i \in 1..Len(s.files) :
             (/\ s.files[i].path \in prev.empty
              /\ \E j \in 1..Len(prev.changed) :
                    /\ prev.changed[j].path = s.files[i].path
                    /\ prev.changed[j].sha256 = s.files[i].sha256)
             => s.files[i] \notin Range(s.changed)

C6_Witness ==
    /\ pc = "done" /\ PlainIncremental /\ prev.valid
    /\ \E i \in 1..Len(s.files) :
          /\ s.files[i].path \in prev.empty
          /\ \E j \in 1..Len(prev.changed) :
                /\ prev.changed[j].path = s.files[i].path
                /\ prev.changed[j].sha256 = s.files[i].sha256
    /\ s.changed # <<>>
    /\ s.errors # <<>>

----------------------------------------------------------------------------
(* Claims about the HTTP endpoints, checked under SpecApi *)

\* C7: after a successful index-full request, an immediate index request
\* (incremental, no force) over the same unchanged directory returns a success
\* response whose unchanged_files holds every scanned file.
C7_IncrementalAfterFullSucceeds ==
    [][(/\ pc = "done" /\ endpoint = "index_incremental" /\ PlainIncremental
        /\ prev.valid /\ prev.endpoint = "index_full" /\ prev.status = 200
        /\ prev.roots = s.roots /\ ~modSince /\ s.files # <<>>
        /\ pc' = "idle" /\ resp'.log_ok)
       => (/\ resp'.status = 200
           /\ resp'.unchanged_files = PathsOf(s.files))]_vars

----------------------------------------------------------------------------
(* chunking.py called on its own: SpecChunk *)

TargetChoices == {-1, 0, 50, 60}
OverlapChoices == {-1, 0, 25, 50, 60, 100}

ChunkCalls ==
    [state : {"called"},
     text : {[src |-> "t", len |-> n] : n \in 0..MaxChunkTextLen},
     target_tokens : TargetChoices, overlap : OverlapChoices,
     chunks : {<<>>}]

ChunkText ==
    /\ ck.state = "called"
    /\ ck' = [ck EXCEPT !.state = "returned",
                        !.chunks = chunk_text(ck.text, ck.target_tokens, ck.overlap)]
    /\ UNCHANGED <<indexVars, sc, mg, ws, qr, eb, nz, cr>>

InitChunk ==
    /\ fs = InitFiles
    /\ IndexIdle
    /\ ck \in ChunkCalls
    /\ sc = NoCall
    /\ mg = NoCall
    /\ ws = NoCall
    /\ qr = NoCall
    /\ eb = NoCall
    /\ nz = NoCall
    /\ cr = NoCall

NextChunk == ChunkText

SpecChunk == InitChunk /\ [][NextChunk]_vars

\* C8: for a non-empty text and overlap_tokens >= 0 the chunks start in
\* strictly increasing order, the first at 0, each next one at or before the
\* end of the one before it, the last one ends at len(text), and together the
\* spans cover exactly [0, len(text)).
C8_ChunksCoverText ==
    (ck.state = "returned" /\ ck.text.len > 0 /\ ck.overlap >= 0)
    => LET c == ck.chunks
           n == ck.text.len
       IN /\ Len(c) >= 1
          /\ c[1][1] = 0
          /\ c[Len(c)][2] = n
          /\ \A k \in 1..Len(c) : 0 <= c[k][1] /\ c[k][1] < c[k][2] /\ c[k][2] <= n
          /\ \A k \in 1..(Len(c) - 1) :
                c[k][1] < c[k + 1][1] /\ c[k + 1][1] <= c[k][2]
          /\ \A x \in 0..(n - 1) : \E k \in 1..Len(c) : c[k][1] <= x /\ x < c[k][2]

C8_Witness ==
    /\ ck.state = "returned" /\ ck.overlap > 0
    /\ Len(ck.chunks) >= 3
    /\ ck.chunks[2][1] < ck.chunks[1][2]
    /\ ck.chunks[Len(ck.chunks)][2] - ck.chunks[Len(ck.chunks)][1]
          < approx_chars(ck.target_tokens)

----------------------------------------------------------------------------
(* main.py calculate_relevance_score: strings are sequences of characters *)

Alphabet == {"a", "B", " "}

Strings(n) == UNION {[1..k -> Alphabet] : k \in 0..n}

IsSpace(c) == c = " "

LowerChar(c) ==
    CASE c = "A" -> "a" [] c = "B" -> "b" [] c = "D" -> "d" [] c = "L" -> "l"
      [] OTHER -> c

\* str.lower()
Lower(str) == [i \in 1..Len(str) |-> LowerChar(str[i])]

\* str.strip()
RECURSIVE LStrip(_)
LStrip(str) == IF str # <<>> /\ IsSpace(Head(str)) THEN LStrip(Tail(str)) ELSE str

RECURSIVE RStrip(_)
RStrip(str) ==
    IF str # <<>> /\ IsSpace(str[Len(str)])
    THEN RStrip(SubSeq(str, 1, Len(str) - 1)) ELSE str

Strip(str) == RStrip(LStrip(str))

\* a slice that keeps everything
TakeAll(str, n) == str

\* str[:n]
Take(str, n) == SubSeq(str, 1, Min(n, Len(str)))

\* needle in hay
Contains(needle, hay) ==
    \E i \in 0..(Len(hay) - Len(needle)) : SubSeq(hay, i + 1, i + Len(needle)) = needle

\* str.split(): the maximal runs of non-space characters
RECURSIVE SplitFrom(_, _, _)
SplitFrom(str, word, out) ==
    IF str = <<>> THEN (IF word = <<>> THEN out ELSE Append(out, word))
    ELSE IF IsSpace(Head(str))
         THEN SplitFrom(Tail(str), <<>>, IF word = <<>> THEN out ELSE Append(out, word))
         ELSE SplitFrom(Tail(str), Append(word, Head(str)), out)

Split(str) == SplitFrom(str, <<>>, <<>>)

\* hay.count(term): occurrences that do not overlap, counted from the left
RECURSIVE StrCount(_, _)
StrCount(hay, term) ==
    IF Len(hay) < Len(term) THEN 0
    ELSE IF SubSeq(hay, 1, Len(term)) = term
         THEN 1 + StrCount(SubSeq(hay, Len(term) + 1, Len(hay)), term)
         ELSE StrCount(Tail(hay), term)

RECURSIVE SumOver(_, _, _)
SumOver(terms, hay, acc) ==
    IF terms = {} THEN acc
    ELSE LET term == CHOOSE x \in terms : TRUE
         IN SumOver(terms \ {term}, hay, acc + StrCount(hay, term))

\* difflib.SequenceMatcher.find_longest_match on a[alo:ahi], b[blo:bhi] (0-based):
\* the longest common block, the earliest in a, then the earliest in b
Blocks(a, b, alo, ahi, blo, bhi) ==
    {<<i, j, k>> \in (alo..(ahi - 1)) \X (blo..(bhi - 1)) \X (1..(ahi - alo)) :
        /\ i + k <= ahi /\ j + k <= bhi
        /\ SubSeq(a, i + 1, i + k) = SubSeq(b, j + 1, j + k)}

LongestMatch(a, b, alo, ahi, blo, bhi) ==
    LET all == Blocks(a, b, alo, ahi, blo, bhi)
    IN IF all = {} THEN <<alo, blo, 0>>
       ELSE CHOOSE m \in all :
              \A o \in all : \/ o[3] < m[3]
                             \/ (o[3] = m[3] /\ m[1] < o[1])
                             \/ (o[3] = m[3] /\ m[1] = o[1] /\ m[2] <= o[2])

\* get_matching_blocks: total size of the blocks found left and right of the
\* longest one
RECURSIVE Matches(_, _, _, _, _, _)
Matches(a, b, alo, ahi, blo, bhi) ==
    LET m == LongestMatch(a, b, alo, ahi, blo, bhi)
        i == m[1]
        j == m[2]
        k == m[3]
    IN IF k = 0 THEN 0
       ELSE k + (IF alo < i /\ blo < j THEN Matches(a, b, alo, i, blo, j) ELSE 0)
              + (IF i + k < ahi /\ j + k < bhi
                 THEN Matches(a, b, i + k, ahi, j + k, bhi) ELSE 0)

\* SequenceMatcher(None, a, b).ratio() = 2.0 * matches / (len(a) + len(b))
RatioNum(a, b) == IF Len(a) + Len(b) = 0 THEN 1 ELSE 2 * Matches(a, b, 0, Len(a), 0, Len(b))
RatioDen(a, b) == IF Len(a) + Len(b) = 0 THEN 1 ELSE Len(a) + Len(b)

SeqSimLimit == 1000

Value(num, den) == [kind |-> "value", num |-> num, den |-> den]
ZeroDivisionError == [kind |-> "ZeroDivisionError", num |-> 0, den |-> 1]

\* an exact phrase test that a blank query does not pass
ExactPhraseNonBlank(query_lower, field_lower) ==
    query_lower # <<>> /\ Contains(query_lower, field_lower)

\* lines 81 and 85: query_lower in title_lower, query_lower in text_lower
ExactPhrase(query_lower, field_lower) == Contains(query_lower, field_lower)

\* the weighted sum of lines 88-114 as the fraction num/den; the division by
\* len(query_terms) * 3 of line 102 is not guarded
WeightedScore(query_lower, combined) ==
    LET query_terms == Range(Split(query_lower))
        combined_terms == Range(Split(combined))
        nq == Cardinality(query_terms)
        matching == Cardinality(query_terms \cap combined_terms)
        freq == SumOver(query_terms, combined, 0)
        b == Take(combined, SeqSimLimit)
        simNum == RatioNum(query_lower, b)
        simDen == RatioDen(query_lower, b)
    IN IF nq = 0 THEN ZeroDivisionError
       ELSE LET den == 30 * nq * simDen
                num == 15 * matching * simDen
                       + 3 * Min(freq, 3 * nq) * simDen
                       + 12 * simNum * nq
            IN Value(Min(num, den), den)

\* a score that tests the body text before the title
RelevanceTextFirst(query, text, title) ==
    LET query_lower == Strip(Lower(query))
        text_lower == Strip(Lower(text))
        title_lower == Strip(Lower(title))
        combined == title_lower \o <<" ">> \o text_lower
    IN IF ExactPhrase(query_lower, text_lower) THEN Value(95, 100)
       ELSE IF ExactPhrase(query_lower, title_lower) THEN Value(1, 1)
       ELSE WeightedScore(query_lower, combined)

calculate_relevance_score(query, text, title) ==
    LET query_lower == Strip(Lower(query))
        text_lower == Strip(Lower(text))
        title_lower == Strip(Lower(title))
        combined == title_lower \o <<" ">> \o text_lower
    IN IF ExactPhrase(query_lower, title_lower) THEN Value(1, 1)
       ELSE IF ExactPhrase(query_lower, text_lower) THEN Value(95, 100)
       ELSE WeightedScore(query_lower, combined)

(* calculate_relevance_score called on its own: SpecScore *)

ScoreCalls ==
    [state : {"called"}, query : Strings(MaxQueryLen), text : Strings(MaxTextLen),
     title : Strings(MaxTitleLen), result : {Value(0, 1)}]

RelevanceScore ==
    /\ sc.state = "called"
    /\ sc' = [sc EXCEPT !.state = "returned",
                        !.result = calculate_relevance_score(sc.query, sc.text, sc.title)]
    /\ UNCHANGED <<indexVars, ck, mg, ws, qr, eb, nz, cr>>

InitScore ==
    /\ fs = InitFiles
    /\ IndexIdle
    /\ ck = NoCall
    /\ sc \in ScoreCalls
    /\ mg = NoCall
    /\ ws = NoCall
    /\ qr = NoCall
    /\ eb = NoCall
    /\ nz = NoCall
    /\ cr = NoCall

NextScore == RelevanceScore

SpecScore == InitScore /\ [][NextScore]_vars

IsBlank(str) == \A i \in 1..Len(str) : IsSpace(str[i])

\* C9: calculate_relevance_score returns a value in [0,1] for every query,
\* text and title, blank ones included, and never fails (no division by zero).
C9_ScoreInUnitInterval ==
    sc.state = "returned"
    => (/\ sc.result.kind = "value"
        /\ sc.result.den > 0
        /\ 0 <= sc.result.num
        /\ sc.result.num <= sc.result.den)

C9_Witness ==
    /\ sc.state = "returned"
    /\ sc.query # <<>> /\ IsBlank(sc.query)
    /\ sc.text = <<>> /\ sc.title = <<>>
    /\ sc.result.kind = "value"

----------------------------------------------------------------------------
(* main.py merge_and_rank_results.  A UnifiedResult is a record of source,   *)
(* url, content and score; scores are hundredths, so 1.0 is ScoreOne.        *)

ScoreOne == 100

\* url: Optional[str] = None
None == "<None>"

\* Python truth of an Optional[str]: None and "" are false
Truthy(v) == v # None /\ v # ""

Urls == {None, "", "https://x"}
ItemContents == {<<>>, <<"a">>, <<"A", " ">>}
ItemScores == {40, 80}

UnifiedResult(source) ==
    [source : {source}, url : Urls, content : ItemContents, score : ItemScores]

ResultLists(source, n) == UNION {[1..k -> UnifiedResult(source)] : k \in 0..n}

Strategies == {"balanced", "local_first", "web_first", "interleaved", "unknown"}
Dedupers == {"balanced", "local_first", "web_first"}
MaxResultsChoices == {0, 1, 2, 10}

FingerprintChars == 200

\* a re-weighting with no cap
BoostUncapped(score) == (score * 13) \div 10

\* r.score = min(r.score * 1.3, 1.0)
Boost(score) == Min((score * 13) \div 10, ScoreOne)

BoostAll(results) ==
    [i \in 1..Len(results) |-> [results[i] EXCEPT !.score = Boost(results[i].score)]]

\* an insertion that keeps the order of arrival
InsertUnsorted(sorted, r) == Append(sorted, r)

\* sorted(..., key=lambda x: x.score, reverse=True): stable
RECURSIVE InsertByScore(_, _)
InsertByScore(sorted, r) ==
    IF sorted = <<>> THEN <<r>>
    ELSE IF Head(sorted).score >= r.score
         THEN <<Head(sorted)>> \o InsertByScore(Tail(sorted), r)
         ELSE <<r>> \o sorted

RECURSIVE SortByScore(_, _)
SortByScore(results, sorted) ==
    IF results = <<>> THEN sorted
    ELSE SortByScore(Tail(results), InsertByScore(sorted, Head(results)))

\* a fingerprint that is the content as it is
ContentFpRaw(content) == content

\* result.content[:200].lower().strip()
ContentFp(content) == Strip(Lower(Take(content, FingerprintChars)))

\* a URL test that never finds a URL seen before
SeenUrlNever(url, seen_urls) == FALSE

\* if result.url and result.url in seen_urls
SeenUrl(url, seen_urls) == Truthy(url) /\ url \in seen_urls

\* the loop of lines 228-247 over the sorted results
RECURSIVE Dedup(_, _, _, _, _)
Dedup(results, unique_results, seen_urls, seen_fps, max_results) ==
    IF results = <<>> THEN unique_results
    ELSE LET result == Head(results)
             content_fp == ContentFp(result.content)
         IN IF SeenUrl(result.url, seen_urls)
            THEN Dedup(Tail(results), unique_results, seen_urls, seen_fps, max_results)
            ELSE IF content_fp \in seen_fps
            THEN Dedup(Tail(results), unique_results, seen_urls, seen_fps, max_results)
            ELSE LET unique == Append(unique_results, result)
                     urls == IF Truthy(result.url) THEN seen_urls \cup {result.url}
                             ELSE seen_urls
                     fps == IF content_fp # <<>> THEN seen_fps \cup {content_fp}
                            ELSE seen_fps
                 IN IF Len(unique) >= max_results THEN unique
                    ELSE Dedup(Tail(results), unique, urls, fps, max_results)

\* an alternation that stops when one of the lists is exhausted
RECURSIVE InterleaveUntilShorter(_, _, _, _)
InterleaveUntilShorter(local_results, web_results, i, merged) ==
    IF i > Min(Len(local_results), Len(web_results)) THEN merged
    ELSE InterleaveUntilShorter(local_results, web_results, i + 1,
                                merged \o <<local_results[i], web_results[i]>>)

\* local[0], web[0], local[1], web[1], ... up to the longer list
RECURSIVE Interleave(_, _, _, _)
Interleave(local_results, web_results, i, merged) ==
    IF i > Max(Len(local_results), Len(web_results)) THEN merged
    ELSE LET withLocal == IF i <= Len(local_results)
                          THEN Append(merged, local_results[i]) ELSE merged
             withWeb == IF i <= Len(web_results)
                        THEN Append(withLocal, web_results[i]) ELSE withLocal
         IN Interleave(local_results, web_results, i + 1, withWeb)

\* local_results + web_results after the strategy's in-place re-weighting
AllResults(local_results, web_results, strategy) ==
    (IF strategy = "local_first" THEN BoostAll(local_results) ELSE local_results)
    \o (IF strategy = "web_first" THEN BoostAll(web_results) ELSE web_results)

\* a merge that deduplicates from the lowest score upwards
MergeFromLowest(local_results, web_results, strategy, max_results) ==
    IF strategy = "interleaved"
    THEN Take(Interleave(local_results, web_results, 1, <<>>), max_results)
    ELSE LET all_results == AllResults(local_results, web_results, strategy)
             sorted == SortByScore(all_results, <<>>)
             ascending == [i \in 1..Len(sorted) |-> sorted[Len(sorted) + 1 - i]]
             unique_results == Dedup(ascending, <<>>, {}, {}, max_results)
         IN Take(SortByScore(unique_results, <<>>), max_results)

merge_and_rank_results(local_results, web_results, strategy, max_results) ==
    IF strategy = "interleaved"
    THEN Take(Interleave(local_results, web_results, 1, <<>>), max_results)
    ELSE LET all_results == AllResults(local_results, web_results, strategy)
             unique_results == Dedup(SortByScore(all_results, <<>>), <<>>, {}, {},
                                     max_results)
         IN Take(SortByScore(unique_results, <<>>), max_results)

(* merge_and_rank_results called on its own: SpecMerge *)

\* every pair of lists with at most MaxItems items in all
MergeInputs ==
    UNION {[local : [1..n -> UnifiedResult("local")], web : ResultLists("web", MaxItems - n)] :
             n \in 0..MaxItems}

MergeCalls ==
    {[state |-> "called", local |-> in.local, web |-> in.web,
      strategy |-> "balanced", max_results |-> 10, result |-> <<>>] : in \in MergeInputs}

MergeAndRank(strategy, max_results) ==
    /\ mg.state = "called"
    /\ mg' = [mg EXCEPT !.state = "returned",
                        !.strategy = strategy,
                        !.max_results = max_results,
                        !.result = merge_and_rank_results(mg.local, mg.web, strategy,
                                                          max_results)]
    /\ UNCHANGED <<indexVars, ck, sc, ws, qr, eb, nz, cr>>

InitMerge ==
    /\ fs = InitFiles
    /\ IndexIdle
    /\ ck = NoCall
    /\ sc = NoCall
    /\ mg \in MergeCalls
    /\ ws = NoCall
    /\ qr = NoCall
    /\ eb = NoCall
    /\ nz = NoCall
    /\ cr = NoCall

NextMerge == \E strategy \in Strategies, max_results \in MaxResultsChoices :
                MergeAndRank(strategy, max_results)

SpecMerge == InitMerge /\ [][NextMerge]_vars

Deduped == mg.state = "returned" /\ mg.strategy \in Dedupers

\* C10 as stated: under balanced, local_first and web_first no two items of
\* the output have the same url, whatever string the url is.
C10_NoTwoShareUrl ==
    Deduped
    => \A i, j \in 1..Len(mg.result) :
          (i < j /\ mg.result[i].url # None) => mg.result[i].url # mg.result[j].url

\* C10 amended: under balanced, local_first and web_first no two items of the
\* output have the same non-empty url (an empty url is never remembered, so
\* items whose url is "" are deduplicated by content only).
C10_NoTwoShareNonEmptyUrl ==
    Deduped
    => \A i, j \in 1..Len(mg.result) :
          (i < j /\ Truthy(mg.result[i].url)) => mg.result[i].url # mg.result[j].url

\* two inputs with one non-empty url and different fingerprints, room for
\* both, and only one in the output
C10_Witness ==
    /\ Deduped
    /\ mg.max_results >= 2
    /\ LET all == mg.local \o mg.web
       IN /\ Len(all) = 2
          /\ Truthy(all[1].url) /\ all[1].url = all[2].url
          /\ ContentFp(all[1].content) # ContentFp(all[2].content)
    /\ Len(mg.result) = 1

\* C11: for every strategy, recognised or not, and every max_results = N >= 0
\* the returned list has at most N items, and each of them is one of the
\* input items (as re-weighted in place), none of them more often than the
\* inputs hold it.
C11_AtMostNFromInputs ==
    mg.state = "returned"
    => /\ Len(mg.result) <= mg.max_results
       /\ LET given == AllResults(mg.local, mg.web, mg.strategy)
          IN \A i \in 1..Len(mg.result) :
                Count(mg.result, mg.result[i]) <= Count(given, mg.result[i])

\* two inputs that differ in url and content, N = 1: one item is cut off
C11_Witness ==
    /\ mg.state = "returned"
    /\ mg.max_results = 1
    /\ Len(mg.local) = 1 /\ Len(mg.web) = 1
    /\ Truthy(mg.local[1].url) /\ ~Truthy(mg.web[1].url)
    /\ ContentFp(mg.local[1].content) # ContentFp(mg.web[1].content)
    /\ Len(mg.result) = 1

----------------------------------------------------------------------------
(* main.py web_search: GET /api/v1/web/search, one engine per step *)

EngineNames == {"exa", "serper", "bing"}
Providers == {"exa", "serper"}

\* engines = [e.strip() for e in re.split(r"[|,]", engine) if e.strip()]
EngineLists == UNION {[1..k -> EngineNames] : k \in 0..MaxEngines}

WebQueries == {<<>>, <<" ">>, <<"a">>}

\* what _exa_search / _serper_search return when they do not raise
ProviderResults(eng) == {<<>>, <<[source |-> eng, url |-> "https://x"]>>}

NoWebResp == [status |-> 0, engine |-> None, q |-> <<>>, results |-> <<>>]

WebCalls ==
    [state : {"called"}, engines : EngineLists, q : WebQueries, i : {1},
     results : {<<>>}, called : {<<>>}, failed : {<<>>}, succeeded : {None},
     resp : {NoWebResp}]

\* qtxt = (q or query or "").strip()
qtxt(q) == Strip(q)

\* if not qtxt: raise HTTPException(400, "Missing query")
WebReject ==
    /\ ws.state = "called"
    /\ qtxt(ws.q) = <<>>
    /\ ws' = [ws EXCEPT !.state = "returned", !.resp.status = 400]
    /\ UNCHANGED <<indexVars, ck, sc, mg, qr, eb, nz, cr>>

WebLooping == ws.state = "called" /\ qtxt(ws.q) # <<>> /\ ws.i <= Len(ws.engines)

\* the provider call of one iteration raises: log.error, continue
WebEngineFails ==
    /\ WebLooping
    /\ ws.engines[ws.i] \in Providers
    /\ ws' = [ws EXCEPT !.i = @ + 1,
                        !.called = Append(@, ws.engines[ws.i]),
                        !.failed = Append(@, ws.engines[ws.i])]
    /\ UNCHANGED <<indexVars, ck, sc, mg, qr, eb, nz, cr>>

\* the provider call of one iteration returns: results = ..., break
WebEngineReturns(results) ==
    /\ WebLooping
    /\ ws.engines[ws.i] \in Providers
    /\ results \in ProviderResults(ws.engines[ws.i])
    /\ ws' = [ws EXCEPT !.state = "broke",
                        !.called = Append(@, ws.engines[ws.i]),
                        !.succeeded = ws.engines[ws.i],
                        !.results = results]
    /\ UNCHANGED <<indexVars, ck, sc, mg, qr, eb, nz, cr>>

\* an engine name that is neither exa nor serper: nothing is called, break
WebEngineUnknown ==
    /\ WebLooping
    /\ ws.engines[ws.i] \notin Providers
    /\ ws' = [ws EXCEPT !.state = "broke"]
    /\ UNCHANGED <<indexVars, ck, sc, mg, qr, eb, nz, cr>>

\* "engine": engines[0] if results else None
ReportedEngine(engines, results) == IF results # <<>> THEN engines[1] ELSE None

WebReturn ==
    /\ \/ ws.state = "broke"
       \/ ws.state = "called" /\ qtxt(ws.q) # <<>> /\ ws.i > Len(ws.engines)
    /\ ws' = [ws EXCEPT !.state = "returned",
                        !.resp = [status |-> 200,
                                  engine |-> ReportedEngine(ws.engines, ws.results),
                                  q |-> qtxt(ws.q),
                                  results |-> ws.results]]
    /\ UNCHANGED <<indexVars, ck, sc, mg, qr, eb, nz, cr>>

InitWeb ==
    /\ fs = InitFiles
    /\ IndexIdle
    /\ ck = NoCall /\ sc = NoCall /\ mg = NoCall /\ qr = NoCall /\ eb = NoCall
    /\ nz = NoCall
    /\ cr = NoCall
    /\ ws \in WebCalls

NextWeb ==
    \/ WebReject
    \/ WebEngineFails
    \/ \E results \in UNION {ProviderResults(e) : e \in Providers} : WebEngineReturns(results)
    \/ WebEngineUnknown
    \/ WebReturn

SpecWeb == InitWeb /\ [][NextWeb]_vars

\* C12: the engines are tried in the given order up to the first success,
\* none after it is called, and the response names as engine the engine that
\* succeeded and lists every engine that failed before it in attempt_errors.
C12_ReportsEngineThatSucceeded ==
    (ws.state = "returned" /\ ws.resp.status = 200 /\ ws.results # <<>>)
    => /\ ws.called = SubSeq(ws.engines, 1, Len(ws.called))
       /\ ws.succeeded = ws.called[Len(ws.called)]
       /\ ws.failed # <<>>
          => /\ ws.resp.engine = ws.succeeded
             /\ "attempt_errors" \in DOMAIN ws.resp
             /\ ws.resp.attempt_errors = ws.failed

----------------------------------------------------------------------------
(* graphs/query_graph.py retrieve and main.py search: POST /api/v1/file/search *)

DefaultTopK == 10

QueryTexts == {<<>>, <<" ">>, <<"a">>}
TopKChoices == {0, 1, 2}

\* QueryState.filters: the key absent, None, or a mapping
FilterChoices ==
    {[kind |-> "absent", map |-> EmptyMap],
     [kind |-> "none", map |-> EmptyMap],
     [kind |-> "dict", map |-> EmptyMap],
     [kind |-> "dict", map |-> [k \in {"ext"} |-> ".md"]]}

\* the where argument of col.query: None, or a mapping
NoWhere == [none |-> TRUE, map |-> EmptyMap]
Where(map) == [none |-> FALSE, map |-> map]

\* a test for a missing query that does not strip
IsBlankQueryUnstripped(qtext) == qtext = <<>>

\* if not qtext.strip()
IsBlankQuery(qtext) == Strip(qtext) = <<>>

\* top_k = int(s.get("top_k", 10) or 10)
TopK(top_k) == IF top_k = 0 THEN DefaultTopK ELSE top_k

\* raw_filters = s.get("filters") or {}
RawFilters(filters) == IF filters.kind = "dict" THEN filters.map ELSE EmptyMap

\* where=raw_filters, whatever it is
WhereFilterRaw(filters) == Where(RawFilters(filters))

\* where_filter = raw_filters if (isinstance(raw_filters, dict) and len(raw_filters) > 0) else None
WhereFilter(filters) ==
    IF RawFilters(filters) # EmptyMap THEN Where(RawFilters(filters)) ELSE NoWhere

\* the records col.query may return for a where argument: those whose metadata
\* carries every pair of the mapping, and every record when where is None
QueryableIds(col, where) ==
    {v \in DOMAIN col :
        where.none \/ \A k \in DOMAIN where.map :
                         k \in DOMAIN col[v].metadata /\ col[v].metadata[k] = where.map[k]}

\* what the collection holds for the query, nearest first
StoredDocs ==
    <<[id |-> "h1:0", text |-> "t1", dist |-> 10, path |-> "docs/a.txt"],
      [id |-> "h2:0", text |-> "t2", dist |-> 60, path |-> "docs/sub/b.md"]>>

\* col.query(...): at most n_results records
StoreAnswers(n_results) == {Take(StoredDocs, k) : k \in 0..Min(n_results, Len(StoredDocs))}

\* hits.append({...}) for each document of the answer
Hits(answer) ==
    [i \in 1..Len(answer) |->
        [id |-> answer[i].id, text |-> answer[i].text, score |-> answer[i].dist,
         path |-> answer[i].path]]

NoQueryResp == [status |-> 0, hits |-> <<>>]

QueryCalls ==
    {c \in [state : {"called"}, caller : {"search", "graph"}, query : QueryTexts,
            filters : FilterChoices, top_k : TopKChoices, hits : {<<>>},
            stage_ran : {FALSE}, embed_calls : {0}, store_queries : {<<>>},
            log_ok : {TRUE}, resp : {NoQueryResp}] :
        c.caller = "search" => c.filters.kind # "absent"}

QueryFrame == UNCHANGED <<indexVars, ck, sc, mg, ws, eb, nz, cr>>

\* search builds qstate and awaits query_graph.ainvoke; no check of req.query
QueryInvoke ==
    /\ qr.state = "called"
    /\ qr' = [qr EXCEPT !.state = "retrieve", !.stage_ran = TRUE]
    /\ QueryFrame

\* retrieve, blank query: s["hits"] = []; return s
RetrieveBlank ==
    /\ qr.state = "retrieve"
    /\ IsBlankQuery(qr.query)
    /\ qr' = [qr EXCEPT !.state = "retrieved", !.hits = <<>>]
    /\ QueryFrame

\* qvec = (await embedder.embed_texts([qtext]))[0]
RetrieveEmbed ==
    /\ qr.state = "retrieve"
    /\ ~IsBlankQuery(qr.query)
    /\ qr' = [qr EXCEPT !.state = "embedded", !.embed_calls = @ + 1]
    /\ QueryFrame

RetrieveEmbedRaises ==
    /\ qr.state = "retrieve"
    /\ ~IsBlankQuery(qr.query)
    /\ qr' = [qr EXCEPT !.state = "raised", !.embed_calls = @ + 1]
    /\ QueryFrame

StoreQuery == [where |-> WhereFilter(qr.filters), n_results |-> TopK(qr.top_k)]

\* res = col.query(query_embeddings=[qvec], n_results=top_k, where=where_filter, ...)
RetrieveQuery(answer) ==
    /\ qr.state = "embedded"
    /\ answer \in StoreAnswers(TopK(qr.top_k))
    /\ qr' = [qr EXCEPT !.state = "retrieved",
                        !.store_queries = Append(@, StoreQuery),
                        !.hits = Hits(answer)]
    /\ QueryFrame

RetrieveQueryRaises ==
    /\ qr.state = "embedded"
    /\ qr' = [qr EXCEPT !.state = "raised", !.store_queries = Append(@, StoreQuery)]
    /\ QueryFrame

\* search after ainvoke: log_query_record, log_query_hits_records, return;
\* any exception, of the graph or of the log writes, becomes HTTPException(500)
SearchStatus(logOk) == IF qr.state = "retrieved" /\ logOk THEN 200 ELSE 500

SearchReturn(logOk) ==
    /\ qr.caller = "search"
    /\ qr.state \in {"retrieved", "raised"}
    /\ qr.state = "raised" => logOk
    /\ qr' = [qr EXCEPT !.state = IF qr.state = "retrieved" THEN "returned" ELSE "failed",
                        !.log_ok = logOk,
                        !.resp = [status |-> SearchStatus(logOk),
                                  hits |-> IF SearchStatus(logOk) = 200 THEN qr.hits
                                           ELSE <<>>]]
    /\ QueryFrame

\* query_graph.ainvoke called directly: the state, or the exception
GraphQueryReturn ==
    /\ qr.caller = "graph"
    /\ qr.state \in {"retrieved", "raised"}
    /\ qr' = [qr EXCEPT !.state = IF qr.state = "retrieved" THEN "returned" ELSE "failed",
                        !.resp = [status |-> IF qr.state = "retrieved" THEN 200 ELSE 500,
                                  hits |-> IF qr.state = "retrieved" THEN qr.hits ELSE <<>>]]
    /\ QueryFrame

InitQuery ==
    /\ fs = InitFiles
    /\ IndexIdle
    /\ ck = NoCall /\ sc = NoCall /\ mg = NoCall /\ ws = NoCall
    /\ qr \in QueryCalls
    /\ eb = NoCall
    /\ nz = NoCall
    /\ cr = NoCall

NextQuery ==
    \/ QueryInvoke
    \/ RetrieveBlank
    \/ RetrieveEmbed
    \/ RetrieveEmbedRaises
    \/ \E k \in 0..Len(StoredDocs) : RetrieveQuery(Take(StoredDocs, k))
    \/ RetrieveQueryRaises
    \/ \E logOk \in BOOLEAN : SearchReturn(logOk)
    \/ GraphQueryReturn

SpecQuery == InitQuery /\ [][NextQuery]_vars

Retrieved == qr.state \in {"retrieved", "returned"}

\* C13: for an empty or whitespace-only query retrieve returns an empty hit
\* list, and neither the embedding provider nor the vector store is called.
C13_BlankQueryNoProvider ==
    (Retrieved /\ Strip(qr.query) = <<>>)
    => /\ qr.hits = <<>>
       /\ qr.embed_calls = 0
       /\ qr.store_queries = <<>>

C13_Witness ==
    /\ qr.state = "returned"
    /\ qr.query = <<" ">>
    /\ qr.resp.status = 200 /\ qr.resp.hits = <<>>
    /\ qr.embed_calls = 0

\* C14: the store is never queried with an empty mapping as filter: absent,
\* None and empty filters give where = None, a non-empty mapping is passed
\* as it is.
C14_NoEmptyWhere ==
    \A i \in 1..Len(qr.store_queries) :
        LET where == qr.store_queries[i].where
        IN /\ where # Where(EmptyMap)
           /\ (qr.filters.kind = "dict" /\ qr.filters.map # EmptyMap)
              => where = Where(qr.filters.map)
           /\ (qr.filters.kind # "dict" \/ qr.filters.map = EmptyMap)
              => where = NoWhere

\* an empty mapping as filters, and the store queried without constraint
C14_Witness ==
    /\ qr.state = "returned"
    /\ qr.filters = [kind |-> "dict", map |-> EmptyMap]
    /\ Len(qr.store_queries) = 1
    /\ qr.store_queries[1].where = NoWhere

\* C15: when the audit-log write after a query fails, the caller still gets
\* the hits as a success response.
C15_LogFailureDoesNotAbort ==
    (qr.caller = "search" /\ qr.state = "returned" /\ ~qr.log_ok)
    => (qr.resp.status = 200 /\ qr.resp.hits = qr.hits)

\* C16: a search request with an empty query string is rejected with an
\* error and never invokes the query pipeline stage.
C16_EmptyQueryRejectedBeforeStage ==
    (qr.caller = "search" /\ qr.query = <<>>)
    => /\ ~qr.stage_ran
       /\ qr.state \in {"returned", "failed"} => qr.resp.status \notin {0, 200}

----------------------------------------------------------------------------
(* More claims about the index pipeline, checked under Spec *)

\* the order of the stages as the claim states it
StageOrder ==
    <<"discover", "diff", "parse_chunk", "embed_batch", "upsert_vectors", "commit_run">>

Running == pc \notin {"idle", "done", "failed"}

\* C17: within one run the stages execute in the order discover, diff,
\* parse+chunk, embed, upsert, commit: the stages that ran are a prefix of
\* that order (none skipped, none repeated), the stage to run next is the one
\* after the last that ran, a finished run ran all six and an aborted run
\* stopped at the stage that raised.
C17_StagesInStrictOrder ==
    pc # "idle"
    => /\ Len(trace) <= Len(StageOrder)
       /\ trace = SubSeq(StageOrder, 1, Len(trace))
       /\ Running => pc = StageOrder[Len(trace) + 1]
       /\ pc = "done" => trace = StageOrder
       /\ pc = "failed" => (trace # <<>> /\ trace[Len(trace)] = failedAt)

C17_Witness ==
    /\ pc = "done"
    /\ trace = StageOrder
    /\ s.chunks # <<>>
    /\ upsertCalls = 1

----------------------------------------------------------------------------
(* embed_batch called on a list of chunk texts of any length: SpecEmbed *)

\* the texts of n chunks: all different, or all the same
TextPatterns == {"distinct", "same"}
ChunkTextList(n, pattern) == [i \in 1..n |-> IF pattern = "distinct" THEN i ELSE 0]

EmbedCalls ==
    {[state |-> "called", texts |-> ChunkTextList(n, pattern), batches |-> <<>>,
      embeddings |-> <<>>] : n \in 0..MaxEmbedTexts, pattern \in TextPatterns}

EmbedTexts ==
    /\ eb.state = "called"
    /\ eb' = [eb EXCEPT !.state = "returned",
                        !.batches = IF eb.texts = <<>> THEN <<>>
                                    ELSE EmbedBatches(eb.texts, 1),
                        !.embeddings = IF eb.texts = <<>> THEN <<>>
                                       ELSE EmbedAll(eb.texts, 1)]
    /\ UNCHANGED <<indexVars, ck, sc, mg, ws, qr, nz, cr>>

InitEmbed ==
    /\ fs = InitFiles
    /\ IndexIdle
    /\ ck = NoCall /\ sc = NoCall /\ mg = NoCall /\ ws = NoCall /\ qr = NoCall
    /\ eb \in EmbedCalls
    /\ nz = NoCall
    /\ cr = NoCall

NextEmbed == EmbedTexts

SpecEmbed == InitEmbed /\ [][NextEmbed]_vars

RECURSIVE Flatten(_)
Flatten(qs) == IF qs = <<>> THEN <<>> ELSE Head(qs) \o Flatten(Tail(qs))

\* C18: after the embed stage the embeddings list is as long as the chunk
\* list and embeddings[i] is the embedding of chunk i's text; the provider is
\* called on consecutive groups of 64 texts (the last may be shorter), in order.
C18_EmbeddingsAligned ==
    eb.state = "returned"
    => /\ Len(eb.embeddings) = Len(eb.texts)
       /\ \A i \in 1..Len(eb.texts) : eb.embeddings[i] = EmbedText(eb.texts[i])
       /\ Flatten(eb.batches) = eb.texts
       /\ \A k \in 1..Len(eb.batches) :
             /\ Len(eb.batches[k]) \in 1..64
             /\ k < Len(eb.batches) => Len(eb.batches[k]) = 64

\* 129 different texts: two full batches and one of a single text
C18_Witness ==
    /\ eb.state = "returned"
    /\ Len(eb.texts) = 129
    /\ eb.texts[1] # eb.texts[129]
    /\ Len(eb.batches) = 3
    /\ Len(eb.batches[3]) = 1

Upserted == "upserted" \in DOMAIN s.stats

\* C19: the upsert stage sends all chunks of the run in one col.upsert call
\* whose four arrays have one entry per chunk, entry i of each describing
\* chunk i: its id (fingerprint of its file, chunk index), its text, its
\* path / fingerprint / chunk index, its embedding; stats.upserted is the
\* number of chunks.
C19_UpsertArraysAligned ==
    /\ Len(upsertArgs) <= 1
    /\ \A k \in 1..Len(upsertArgs) :
          LET call == upsertArgs[k]
              n == Len(s.chunks)
          IN /\ n > 0
             /\ Len(call.ids) = n /\ Len(call.documents) = n
             /\ Len(call.metadatas) = n /\ Len(call.embeddings) = n
             /\ \A i \in 1..n :
                   /\ call.ids[i] = <<s.chunks[i].file.sha256, s.chunks[i].chunk_idx>>
                   /\ call.documents[i] = s.chunks[i].text
                   /\ call.metadatas[i].path = s.chunks[i].file.path
                   /\ call.metadatas[i].sha256 = s.chunks[i].file.sha256
                   /\ call.metadatas[i].chunk_idx = s.chunks[i].chunk_idx
                   /\ call.embeddings[i] = EmbedText(s.chunks[i].text)
    /\ Upserted => /\ s.stats["upserted"] = Len(s.chunks)
                   /\ s.chunks # <<>> => Len(upsertArgs) = 1

\* chunks of two files, one of them with several chunks, sent in one call
C19_Witness ==
    /\ Upserted
    /\ Len(upsertArgs) = 1
    /\ \E i, j \in 1..Len(s.chunks) :
          /\ s.chunks[i].file.path # s.chunks[j].file.path
          /\ s.chunks[i].text # s.chunks[j].text
    /\ \E i \in 1..Len(s.chunks) : s.chunks[i].chunk_idx > 0

SameButTimestamp(row1, row2) ==
    [row1 EXCEPT !.last_indexed_at = 0] = [row2 EXCEPT !.last_indexed_at = 0]

\* C20: executing the upsert stage again with the same chunks and embeddings
\* leaves the vector store as the first execution left it, and executing the
\* commit stage again with the same changed subset leaves every row of the
\* fingerprint table as it was, the last-indexed timestamp excepted.
C20_UpsertAndCommitIdempotent ==
    /\ (pc \in {"commit_run", "done"} /\ upsertArgs # <<>>)
       => StoreUpsert(store, upsertArgs[1], Len(upsertArgs[1].ids)) = store
    /\ pc = "done"
       => LET files == CommitSet(s.changed, s.errors)
              again == CommitRows(known, files, runs + 1, Len(files))
          IN /\ DOMAIN again = DOMAIN known
             /\ \A p \in DOMAIN known : SameButTimestamp(again[p], known[p])

\* a finished run that upserted several records and committed a row
C20_Witness ==
    /\ pc = "done"
    /\ upsertArgs # <<>>
    /\ Len(upsertArgs[1].ids) > 1
    /\ s.changed # <<>>
    /\ \E i \in 1..Len(s.changed) : s.changed[i].path \notin DOMAIN knownAtStart

----------------------------------------------------------------------------
(* main.py: normalize_local_results and normalize_web_results. A score is    *)
(* the exact fraction num/den; a vector distance is a number of hundredths.  *)

MaxWebHits == 8

HalfDistance == 50
ContentChars == 500

LocalDocument ==
    <<"L", "o", "c", "a", "l", " ", "D", "o", "c", "u", "m", "e", "n", "t">>

\* path.split("/")[-1]
RECURSIVE LastSegment(_)
LastSegment(path) ==
    IF \A i \in 1..Len(path) : path[i] # "/" THEN path ELSE LastSegment(Tail(path))

file_name(path) == IF path # <<>> THEN LastSegment(path) ELSE LocalDocument

\* hit.get("score", 0): the key "score" holds <<d>>, or <<>> when it is missing
OriginalScore(hit) == IF hit.score = <<>> THEN 0 ELSE hit.score[1]

\* a boost for every distance below 0.5, a distance of 0 included
BoostAppliesBelowHalf(original_score) == original_score < HalfDistance

\* if original_score and original_score < 0.5
BoostApplies(original_score) == original_score # 0 /\ original_score < HalfDistance

\* a boosted score that is not capped
LocalScoreUncapped(relevance, original_score) ==
    IF BoostApplies(original_score)
    THEN Value(6 * relevance.num, 5 * relevance.den)
    ELSE relevance

\* relevance * 1.2 if the boost applies; score = min(relevance, 1.0)
LocalScore(relevance, original_score) ==
    IF BoostApplies(original_score)
    THEN Value(Min(6 * relevance.num, 5 * relevance.den), 5 * relevance.den)
    ELSE Value(Min(relevance.num, relevance.den), relevance.den)

normalize_local_results(hits, query) ==
    [i \in 1..Len(hits) |->
       LET content == hits[i].text
           path == hits[i].path
           relevance == calculate_relevance_score(query, content, file_name(path))
       IN [source |-> "local",
           title |-> file_name(path),
           content |-> Take(content, ContentChars),
           url |-> IF path # <<>> THEN <<"file://">> \o path ELSE <<None>>,
           score |-> LocalScore(relevance, OriginalScore(hits[i])),
           original_score |-> OriginalScore(hits[i])]]

\* max(0.5, 1.0 - idx * 0.08), in hundredths; idx counts from 0
PositionScore(idx) == Max(50, 100 - 8 * idx)

\* position_score * 0.4 + content_score * 0.6
WebScore(idx, content_score) ==
    Value(4 * PositionScore(idx) * content_score.den + 600 * content_score.num,
          1000 * content_score.den)

normalize_web_results(results, query) ==
    [i \in 1..Len(results) |->
       [source |-> "web",
        title |-> results[i].title,
        content |-> Take(results[i].snippet, ContentChars),
        url |-> <<results[i].url>>,
        score |-> WebScore(i - 1, calculate_relevance_score(query, results[i].snippet,
                                                            results[i].title)),
        original_score |-> 0]]

(* One call of a normalizer or of merge_and_rank_results: SpecNorm *)

LocalPaths == {<<>>, <<"a">>, <<"d", "/", "B">>}
Distances == {<<>>, <<0>>, <<25>>, <<50>>, <<75>>}

HitTexts == {<<>>, <<"a">>, <<"B", " ">>}
HitTitles == {<<>>, <<"a">>}

LocalHits == [text : HitTexts, path : LocalPaths, score : Distances]
WebHits == [snippet : HitTexts, title : HitTitles, url : {None, "https://x"}]

Repeat(h, n) == [i \in 1..n |-> h]

\* a call with the query q and n hits h
NormCall(kind, q, h, n) ==
    [state |-> "called", kind |-> kind, query |-> q, hits |-> Repeat(h, n), result |-> <<>>]

NormalizeLocal ==
    /\ nz.state = "called" /\ nz.kind = "local"
    /\ nz' = [nz EXCEPT !.state = "returned",
                        !.result = normalize_local_results(nz.hits, nz.query)]
    /\ UNCHANGED <<indexVars, ck, sc, mg, ws, qr, eb, cr>>

NormalizeWeb ==
    /\ nz.state = "called" /\ nz.kind = "web"
    /\ nz' = [nz EXCEPT !.state = "returned",
                        !.result = normalize_web_results(nz.hits, nz.query)]
    /\ UNCHANGED <<indexVars, ck, sc, mg, ws, qr, eb, cr>>

InitNorm ==
    /\ fs = InitFiles
    /\ IndexIdle
    /\ ck = NoCall /\ sc = NoCall /\ ws = NoCall /\ qr = NoCall /\ eb = NoCall
    /\ cr = NoCall
    /\ \/ /\ \E q \in Strings(MaxQueryLen), h \in LocalHits, n \in 0..MaxItems :
                nz = NormCall("local", q, h, n)
          /\ mg = NoCall
       \/ /\ \E q \in Strings(MaxQueryLen), h \in WebHits, n \in 0..MaxWebHits :
                nz = NormCall("web", q, h, n)
          /\ mg = NoCall
       \/ nz = NoCall /\ mg \in MergeCalls

NextNorm ==
    \/ NormalizeLocal
    \/ NormalizeWeb
    \/ \E strategy \in Strategies, max_results \in MaxResultsChoices :
          MergeAndRank(strategy, max_results)

SpecNorm == InitNorm /\ [][NextNorm]_vars

Discovered == "discovered" \in DOMAIN s.stats

\* C21: the file records of one discovery pass have pairwise distinct paths,
\* whatever the list of roots.
C21_DiscoveredPathsDistinct ==
    Discovered
    => \A i, j \in 1..Len(s.files) : i # j => s.files[i].path # s.files[j].path

\* C22: only the commit stage writes the table of fingerprints, and no step
\* ever removes a path from it: the set of known paths only grows.
C22_OnlyCommitWritesTable ==
    [][/\ known' # known => pc = "commit_run"
       /\ DOMAIN known \subseteq DOMAIN known']_vars

\* a second run has committed new rows, and the table still holds the path of
\* a file that was removed from the disk before that run
C22_Witness ==
    /\ runs = 2
    /\ pc = "done"
    /\ known # knownAtStart
    /\ \E p \in DOMAIN known : p \notin DOMAIN fs

----------------------------------------------------------------------------
(* Claims about the unified results, checked under SpecNorm *)

InUnitInterval(score) ==
    score.kind = "value" /\ score.den > 0 /\ 0 <= score.num /\ score.num <= score.den

\* C23: every result of normalize_local_results and of normalize_web_results
\* has a score in [0,1], and so has every item merge_and_rank_results returns
\* under any strategy when the scores it is given are in [0,1].
C23_ScoresInUnitInterval ==
    /\ nz.state = "returned"
       => \A i \in 1..Len(nz.result) : InUnitInterval(nz.result[i].score)
    /\ mg.state = "returned"
       => \A i \in 1..Len(mg.result) :
             0 <= mg.result[i].score /\ mg.result[i].score <= ScoreOne

\* a local hit whose boosted relevance 1.2 * 0.95 was capped at 1
C23_Witness ==
    /\ nz.state = "returned" /\ nz.kind = "local"
    /\ \E i \in 1..Len(nz.result) :
          /\ BoostApplies(nz.result[i].original_score)
          /\ calculate_relevance_score(nz.query, nz.hits[i].text, nz.result[i].title)
             = Value(95, 100)
          /\ nz.result[i].score.num = nz.result[i].score.den

\* C30: a local hit gets min(1.2 x relevance, 1.0) for every distance below
\* 0.5, a distance of 0 included, and the unboosted relevance when the
\* distance is 0.5 or more or is missing.
C30_BoostForEveryDistanceBelowHalf ==
    (nz.state = "returned" /\ nz.kind = "local")
    => \A i \in 1..Len(nz.result) :
          LET rel == calculate_relevance_score(nz.query, nz.hits[i].text,
                                               nz.result[i].title)
              got == nz.result[i].score
              boosted == Value(Min(6 * rel.num, 5 * rel.den), 5 * rel.den)
              want == IF nz.hits[i].score # <<>> /\ nz.hits[i].score[1] < HalfDistance
                      THEN boosted ELSE rel
          IN got.num * want.den = want.num * got.den

----------------------------------------------------------------------------
(* Claims about calculate_relevance_score, checked under SpecScore *)

\* C24: the score is exactly 1.0 when the lower-cased, trimmed query is a
\* substring of the lower-cased title, otherwise exactly 0.95 when it is a
\* substring of the lower-cased text, and the weighted formula otherwise.
C24_ExactMatchesReturnEarly ==
    sc.state = "returned"
    => LET q == Strip(Lower(sc.query))
           inTitle == Contains(q, Lower(sc.title))
           inText == Contains(q, Lower(sc.text))
       IN /\ inTitle => sc.result = Value(1, 1)
          /\ (~inTitle /\ inText) => sc.result = Value(95, 100)
          /\ (~inTitle /\ ~inText)
             => sc.result = WeightedScore(q, Strip(Lower(sc.title)) \o <<" ">>
                                             \o Strip(Lower(sc.text)))

\* the query is in the title and in the text: the title wins
C24_Witness ==
    /\ sc.state = "returned"
    /\ Strip(Lower(sc.query)) # <<>>
    /\ Contains(Strip(Lower(sc.query)), Lower(sc.title))
    /\ Contains(Strip(Lower(sc.query)), Lower(sc.text))
    /\ sc.result = Value(1, 1)

----------------------------------------------------------------------------
(* Claims about the soft errors of the index graph, checked under Spec *)

Parsed == pc # "idle" /\ "chunks" \in DOMAIN s.stats

ChunksOfPath(p) == {i \in 1..Len(s.chunks) : s.chunks[i].file.path = p}

ZeroChunks == Parsed /\ s.chunks = <<>>

\* C26: in a run with zero chunks the embed stage sets an empty embedding list
\* and makes no call to the embedding provider, and the upsert stage makes no
\* upsert call on the vector store and records stats.upserted = 0.
C26_ZeroChunksNoCalls ==
    ZeroChunks
    => /\ embedCalls = 0
       /\ failedAt # "embed_batch"
       /\ s.embeddings = <<>>
       /\ upsertCalls = 0
       /\ upsertArgs = <<>>
       /\ sentIds = {}
       /\ DOMAIN store = idsAtStart
       /\ Upserted => s.stats["upserted"] = 0

\* every changed file of the run was parse-empty, and the run reached the end
C26_Witness ==
    /\ pc = "done"
    /\ s.changed # <<>>
    /\ s.chunks = <<>>
    /\ s.embeddings = <<>>
    /\ s.stats["upserted"] = 0
    /\ embedCalls = 0 /\ upsertCalls = 0

\* the supported files under the roots of the run that exist
UnderRoots ==
    {p \in DOMAIN fs : /\ is_supported_file(p)
                        /\ \E k \in 1..Len(s.roots) :
                              s.roots[k] \in ExistingRoots /\ p \in Tree(s.roots[k])}

\* C27: a supported file whose bytes cannot be read still gets a record, with
\* the weak signature sig:<size>:<mtime_ns> as its fingerprint; discover does
\* not fail, and every other file is discovered and counted in
\* stats.discovered.
C27_UnreadableGetsWeakSignature ==
    /\ failedAt # "discover"
    /\ (Discovered /\ pc # "idle")
       => /\ \A p \in UnderRoots :
                \E i \in 1..Len(s.files) :
                   /\ s.files[i].path = p
                   /\ s.files[i].sha256
                      = IF fs[p].readable
                        THEN <<"sha256", fs[p].content, 0, 0>>
                        ELSE <<"sig", "", TextLen(fs[p].content), fs[p].mtime_ns>>
          /\ \A i \in 1..Len(s.files) : s.files[i].path \in UnderRoots
          /\ s.stats["discovered"] = Len(s.files)
          /\ s.stats["discovered"] >= Cardinality(UnderRoots)

\* one file of the run could not be read, another one could
C27_Witness ==
    /\ Discovered /\ pc # "idle"
    /\ \E i, j \in 1..Len(s.files) :
          /\ s.files[i].sha256[1] = "sig" /\ ~fs[s.files[i].path].readable
          /\ s.files[j].sha256[1] = "sha256"
    /\ s.stats["discovered"] >= 2

----------------------------------------------------------------------------
(* Claims about the spans of chunk_text, checked under SpecChunk *)

\* the window and the stride as the specification words them
WindowOf(call) == Max(200, call.target_tokens * 4)
StrideOf(call) ==
    IF WindowOf(call) - call.overlap * 4 > 0
    THEN WindowOf(call) - call.overlap * 4
    ELSE WindowOf(call)

\* the first k whose window reaches the end of the text
LastIndex(call) ==
    CHOOSE k \in 0..call.text.len :
       /\ k * StrideOf(call) + WindowOf(call) >= call.text.len
       /\ \A m \in 0..(k - 1) : m * StrideOf(call) + WindowOf(call) < call.text.len

FollowsFormula(call) ==
    LET c == call.chunks
        n == call.text.len
        W == WindowOf(call)
        S == StrideOf(call)
    IN /\ Len(c) = LastIndex(call) + 1
       /\ \A k \in 1..Len(c) :
             /\ c[k][1] = (k - 1) * S
             /\ c[k][2] = Min(n, (k - 1) * S + W)
             /\ c[k][3] = [src |-> call.text.src, from |-> c[k][1], to |-> c[k][2]]
       /\ \A k \in 1..(Len(c) - 1) : c[k][2] - c[k][1] = W
       /\ c[Len(c)][2] = n

\* C28 as stated: for every text of length n > 0 and every pair of
\* parameters, chunk k starts at k*S and ends at min(n, k*S + W), up to the
\* first k whose end is n.
C28_ChunksFollowFormula ==
    (ck.state = "returned" /\ ck.text.len > 0) => FollowsFormula(ck)

\* C28: for a text of length n > 0 and overlap_tokens >= 0, chunk k starts at
\* k*S and ends at min(n, k*S + W) for k = 0, 1, ... up to the first k whose
\* end is n; every chunk but the last has length W, and the text of a chunk
\* is text[start:end].
C28_ChunksFollowFormulaNoGap ==
    (ck.state = "returned" /\ ck.text.len > 0 /\ ck.overlap >= 0) => FollowsFormula(ck)

\* degenerate overlap: the stride is the window, and there are several chunks
C28_Witness ==
    /\ ck.state = "returned"
    /\ ck.overlap * 4 >= WindowOf(ck)
    /\ Len(ck.chunks) >= 3
    /\ ck.chunks[2][1] = ck.chunks[1][2]
    /\ ck.chunks[Len(ck.chunks)][2] - ck.chunks[Len(ck.chunks)][1] < WindowOf(ck)

----------------------------------------------------------------------------
(* chunking.py: the while loop of chunk_text, one iteration per step:       *)
(* SpecChunkLoop. The interpreter runs the loop to its end, hence the weak  *)
(* fairness of the steps.                                                   *)

ChunkLoopCalls ==
    [state : {"called"},
     text : {[src |-> "t", len |-> n] : n \in 0..MaxChunkTextLen},
     target_tokens : TargetChoices, overlap : OverlapChoices,
     chunks : {<<>>}, i : {0}]

ChunkFrame == UNCHANGED <<indexVars, sc, mg, ws, qr, eb, nz, cr>>

\* lines 9-17: return [] for an empty text, else enter the loop with i = 0
ChunkEnter ==
    /\ ck.state = "called"
    /\ ck' = [ck EXCEPT !.state = IF ck.text.len = 0 THEN "returned" ELSE "looping"]
    /\ ChunkFrame

\* lines 18-23: one iteration: emit (i, j, text[i:j]), break if j == n
ChunkIterate ==
    /\ ck.state = "looping"
    /\ ck.i < ck.text.len
    /\ LET j == Min(ck.text.len, ck.i + approx_chars(ck.target_tokens))
           out == Append(ck.chunks, <<ck.i, j, Slice(ck.text, ck.i, j)>>)
       IN ck' = IF j = ck.text.len
                THEN [ck EXCEPT !.chunks = out, !.state = "returned"]
                ELSE [ck EXCEPT !.chunks = out,
                                !.i = ck.i + ChunkStep(ck.target_tokens, ck.overlap)]
    /\ ChunkFrame

\* line 18: the condition i < n fails
ChunkLeave ==
    /\ ck.state = "looping"
    /\ ~(ck.i < ck.text.len)
    /\ ck' = [ck EXCEPT !.state = "returned"]
    /\ ChunkFrame

InitChunkLoop ==
    /\ fs = InitFiles
    /\ IndexIdle
    /\ ck \in ChunkLoopCalls
    /\ sc = NoCall /\ mg = NoCall /\ ws = NoCall /\ qr = NoCall /\ eb = NoCall
    /\ nz = NoCall
    /\ cr = NoCall

NextChunkLoop ==
    \/ ChunkEnter
    \/ ChunkIterate
    \/ ChunkLeave

SpecChunkLoop == InitChunkLoop /\ [][NextChunkLoop]_vars /\ WF_vars(NextChunkLoop)

\* C29: chunk_text terminates for every text and every pair of parameters,
\* degenerate overlap (overlap_tokens*4 >= window) included: the start index
\* strictly increases at every iteration, the chunks are no more than the
\* characters of the text, no chunk follows the first one that ends at
\* len(text), and the call returns what the loop computed.
C29_ChunkLoopTerminates ==
    /\ [][(ck.state = "looping" /\ ck'.state = "looping") => ck'.i > ck.i]_vars
    /\ [](\A k \in 1..(Len(ck.chunks) - 1) : ck.chunks[k][2] # ck.text.len)
    /\ [](Len(ck.chunks) <= ck.text.len)
    /\ [](ck.state = "returned"
          => ck.chunks = chunk_text(ck.text, ck.target_tokens, ck.overlap))
    /\ <>(ck.state = "returned")

\* a call with degenerate overlap returned after several iterations
C29_Witness ==
    /\ ck.state = "returned"
    /\ ck.overlap * CharsPerToken >= approx_chars(ck.target_tokens)
    /\ ck.i > 0
    /\ Len(ck.chunks) = 3

----------------------------------------------------------------------------
(* Claims about the deduplicating merge, checked under SpecMerge *)

\* the lower-cased, trimmed first 200 characters of the content of an item
FpOf(item) == Strip(Lower(SubSeq(item.content, 1, Min(200, Len(item.content)))))

\* C31 as stated: under balanced, local_first and web_first no two items of
\* the output have the same content fingerprint, empty fingerprints included.
C31_NoTwoShareFingerprint ==
    Deduped
    => \A i, j \in 1..Len(mg.result) : i < j => FpOf(mg.result[i]) # FpOf(mg.result[j])

\* C31 amended: under balanced, local_first and web_first no two items of the
\* output have the same non-empty content fingerprint (an empty fingerprint
\* is never remembered, so items with empty or blank content all pass).
C31_NoTwoShareNonEmptyFingerprint ==
    Deduped
    => \A i, j \in 1..Len(mg.result) :
          (i < j /\ FpOf(mg.result[i]) # <<>>) => FpOf(mg.result[i]) # FpOf(mg.result[j])

\* two inputs whose contents differ but whose fingerprints are the same
\* non-empty string, urls that do not clash, room for both: one is returned
C31_Witness ==
    /\ Deduped
    /\ mg.max_results >= 2
    /\ LET all == mg.local \o mg.web
       IN /\ Len(all) = 2
          /\ all[1].content # all[2].content
          /\ FpOf(all[1]) = FpOf(all[2]) /\ FpOf(all[1]) # <<>>
          /\ ~Truthy(all[1].url)
    /\ Len(mg.result) = 1

\* C32: under balanced, local_first and web_first the returned list is in
\* non-increasing order of the (re-weighted) score, for every max_results.
C32_SortedByScore ==
    Deduped
    => \A i \in 1..(Len(mg.result) - 1) : mg.result[i].score >= mg.result[i + 1].score

\* equal input scores, web_first: the re-weighted web item comes first
C32_Witness ==
    /\ Deduped /\ mg.strategy = "web_first"
    /\ Len(mg.local) = 1 /\ Len(mg.web) = 1
    /\ mg.local[1].score = mg.web[1].score
    /\ Len(mg.result) = 2
    /\ mg.result[1].source = "web"
    /\ mg.result[1].score > mg.result[2].score

\* the items of a list with min(score x 1.3, 1.0) as their score
Reweighted(results) ==
    [i \in 1..Len(results) |->
       [results[i] EXCEPT !.score = IF 13 * @ >= 10 * ScoreOne THEN ScoreOne
                                    ELSE (13 * @) \div 10]]

\* C33: under local_first (web_first) every local (web) score becomes
\* min(score x 1.3, 1.0), the scores of the other source stay as they are,
\* and the output is the balanced merge of the re-weighted inputs.
C33_FirstIsBalancedOfReweighted ==
    /\ (mg.state = "returned" /\ mg.strategy = "local_first")
       => /\ mg.result = merge_and_rank_results(Reweighted(mg.local), mg.web,
                                                "balanced", mg.max_results)
          /\ \A k \in 1..Len(mg.result) :
                IF mg.result[k].source = "local"
                THEN mg.result[k] \in Range(Reweighted(mg.local))
                ELSE mg.result[k] \in Range(mg.web)
    /\ (mg.state = "returned" /\ mg.strategy = "web_first")
       => /\ mg.result = merge_and_rank_results(mg.local, Reweighted(mg.web),
                                                "balanced", mg.max_results)
          /\ \A k \in 1..Len(mg.result) :
                IF mg.result[k].source = "web"
                THEN mg.result[k] \in Range(Reweighted(mg.web))
                ELSE mg.result[k] \in Range(mg.local)

\* local_first re-weights the local item to the cap 1.0 and leaves the web
\* item as it is: the output differs from the balanced merge of the inputs
C33_Witness ==
    /\ mg.state = "returned" /\ mg.strategy = "local_first"
    /\ Len(mg.local) = 1 /\ Len(mg.web) = 1
    /\ mg.local[1].score = 80 /\ mg.web[1].score = 80
    /\ Len(mg.result) = 2
    /\ mg.result[1].source = "local" /\ mg.result[1].score = ScoreOne
    /\ mg.result[2] = mg.web[1]
    /\ mg.result # merge_and_rank_results(mg.local, mg.web, "balanced", mg.max_results)

\* local[0], web[0], local[1], web[1], ... as long as both lists have items
RECURSIVE Alternation(_, _)
Alternation(local_results, web_results) ==
    IF local_results = <<>> \/ web_results = <<>> THEN <<>>
    ELSE <<Head(local_results), Head(web_results)>>
         \o Alternation(Tail(local_results), Tail(web_results))

Interleaved == mg.state = "returned" /\ mg.strategy = "interleaved"

AlternationToLonger(local_results, web_results) ==
    LET m == Min(Len(local_results), Len(web_results))
    IN Alternation(local_results, web_results)
       \o SubSeq(local_results, m + 1, Len(local_results))
       \o SubSeq(web_results, m + 1, Len(web_results))

Given ==
    (IF mg.strategy = "local_first" THEN Reweighted(mg.local) ELSE mg.local)
    \o (IF mg.strategy = "web_first" THEN Reweighted(mg.web) ELSE mg.web)

\* the stable score-descending ordering: the place of item i of all
Rank(all, i) ==
    1 + Cardinality({j \in 1..Len(all) :
                       \/ all[j].score > all[i].score
                       \/ all[j].score = all[i].score /\ j < i})

Ordered(all) == [k \in 1..Len(all) |-> all[CHOOSE i \in 1..Len(all) : Rank(all, i) = k]]

\* same non-empty URL or same non-empty content fingerprint
Duplicates(a, b) ==
    \/ Truthy(a.url) /\ a.url = b.url
    \/ FpOf(a) # <<>> /\ FpOf(a) = FpOf(b)

\* greedy deduplication: item k survives iff no survivor before it is a
\* duplicate of it
RECURSIVE Survives(_, _)
Survives(ordered, k) ==
    \A j \in 1..(k - 1) : ~(Survives(ordered, j) /\ Duplicates(ordered[j], ordered[k]))

Survivors(ordered) ==
    LET keep == {k \in 1..Len(ordered) : Survives(ordered, k)}
        nth(m) == CHOOSE k \in keep : Cardinality({j \in keep : j < k}) = m - 1
    IN [m \in 1..Cardinality(keep) |-> ordered[nth(m)]]

\* C40: under balanced, local_first and web_first the output is exactly the
\* first max_results survivors of greedy deduplication over the stable
\* score-descending ordering of local + web; hence every input item that is
\* not in the output duplicates an output item whose score is at least as
\* high, or has a score no greater than that of every output item.
C40_KeepsTheBest ==
    Deduped
    => LET survivors == Survivors(Ordered(Given))
       IN /\ mg.result = SubSeq(survivors, 1, Min(mg.max_results, Len(survivors)))
          /\ \A i \in 1..Len(Given) :
                Count(mg.result, Given[i]) < Count(Given, Given[i])
                => \/ \E k \in 1..Len(mg.result) :
                         /\ mg.result[k].score >= Given[i].score
                         /\ \/ Duplicates(mg.result[k], Given[i])
                            \/ mg.result[k] = Given[i]
                   \/ \A k \in 1..Len(mg.result) : mg.result[k].score >= Given[i].score

\* room for one item only: the web item of higher score is kept, the local
\* item that came first in the input is dropped
C40_Witness ==
    /\ Deduped /\ mg.strategy = "balanced"
    /\ mg.max_results = 1
    /\ Len(mg.local) = 1 /\ Len(mg.web) = 1
    /\ mg.local[1].score < mg.web[1].score
    /\ ~Duplicates(mg.local[1], mg.web[1])
    /\ mg.result = <<mg.web[1]>>

----------------------------------------------------------------------------
(* main.py upload_files: POST /api/v1/upload-files saves the files under    *)
(* uploaded_files/ and runs the index graph with the saved paths as roots:  *)
(* SpecUpload                                                               *)

UploadPaths == {"uploaded_files/u.txt", "uploaded_files/w.bin"}

\* the requests: the uploaded files, by the path they are saved at, with
\* their content
Uploads ==
    UNION {[names -> {"c1", "c2"}] : names \in (SUBSET UploadPaths) \ {{}}}

\* file_paths in the order of the request
UploadOrder == <<"uploaded_files/u.txt", "uploaded_files/w.bin">>
PathList(names) == SelectSeq(UploadOrder, LAMBDA p : p \in names)

\* lines 340-368: every file is saved, then the graph is invoked
UploadFilesStart(upload) ==
    /\ pc = "idle" /\ runs < MaxRuns
    /\ fs' = [q \in DOMAIN fs \cup DOMAIN upload |->
                IF q \in DOMAIN upload
                THEN [content |-> upload[q], readable |-> TRUE, mtime_ns |-> clock]
                ELSE fs[q]]
    /\ modSince' = TRUE
    /\ runs' = runs + 1
    /\ endpoint' = "upload_files"
    /\ s' = [NoState EXCEPT !.mode = "incremental", !.roots = PathList(DOMAIN upload),
                            !.force_reembed = TRUE]
    /\ pc' = NextNode("START")
    /\ trace' = <<>>
    /\ failedAt' = "none"
    /\ knownAtStart' = known
    /\ idsAtStart' = DOMAIN store
    /\ sentIds' = {}
    /\ upsertArgs' = <<>>
    /\ embedCalls' = 0
    /\ upsertCalls' = 0
    /\ UNCHANGED <<clock, known, store, resp, prev, pureVars>>

\* lines 346-352: no file could be saved: HTTPException(400)
UploadFilesRejected(upload) ==
    /\ pc = "idle" /\ runs < MaxRuns
    /\ runs' = runs + 1
    /\ resp' = [NoResp EXCEPT !.endpoint = "upload_files", !.status = 400]
    /\ UNCHANGED <<fs, clock, known, store, pc, s, endpoint, trace, failedAt,
                   knownAtStart, idsAtStart, sentIds, upsertArgs, embedCalls, upsertCalls,
                   prev, modSince, pureVars>>

UploadFilesStatus == IF pc = "done" THEN 200 ELSE 500

UploadFilesReturn == Return("upload_files", UploadFilesStatus, TRUE)

NextUpload ==
    \/ \E upload \in Uploads : UploadFilesStart(upload)
    \/ \E upload \in Uploads : UploadFilesRejected(upload)
    \/ Nodes
    \/ GetCollectionRaises
    \/ CommitRunRaises
    \/ UploadFilesReturn

SpecUpload == Init /\ [][NextUpload]_vars

\* the saved files that have a supported extension
SavedSupported == {p \in Range(s.roots) : p \in UploadPaths /\ is_supported_file(p)}

\* C36: the run that upload_files starts discovers every saved file with a
\* supported extension (stats.discovered is at least their number), and,
\* force_reembed being true, has each of them in its changed subset.
C36_UploadIndexesSavedFiles ==
    (endpoint = "upload_files" /\ pc # "idle")
    => /\ Discovered
          => /\ SavedSupported \subseteq PathsOf(s.files)
             /\ s.stats["discovered"] >= Cardinality(SavedSupported)
       /\ Diffed => SavedSupported \subseteq PathsOf(s.changed)

----------------------------------------------------------------------------
(* Claims about the vector records of the index graph, checked under Spec *)

\* C37: in every upsert batch of a run the ids are pairwise distinct, also
\* when two files at different paths have the same content, so that after the
\* upsert stage every chunk of the run is a record of the store with the path
\* of its file in the metadata.
C37_BatchIdsDistinct ==
    /\ \A k \in 1..Len(upsertArgs) :
          \A i, j \in 1..Len(upsertArgs[k].ids) :
             i # j => upsertArgs[k].ids[i] # upsertArgs[k].ids[j]
    /\ (Upserted /\ pc # "idle")
       => \A i \in 1..Len(s.chunks) :
             \E v \in DOMAIN store :
                /\ store[v].metadata.path = s.chunks[i].file.path
                /\ store[v].metadata.chunk_idx = s.chunks[i].chunk_idx

-----------------------------------------------------------------------------
(* Claims about the growth of the vector store, checked under Spec *)

\* a record whose fingerprint is no longer the one of the file at its path
Superseded(col, v) ==
    \/ col[v].metadata.path \notin DOMAIN fs
    \/ col[v].metadata.path \in DOMAIN known
          /\ known[col[v].metadata.path].sha256 # col[v].metadata.sha256

\* C38: no step of the indexing pipeline deletes a vector record: the set of ids
\* in the store only grows, and a record that retrieve could return for a query
\* without filters before the step can be returned after it, the records of
\* changed or removed files included
C38_StoreOnlyGrows ==
    [][/\ DOMAIN store \subseteq DOMAIN store'
       /\ QueryableIds(store, NoWhere) \subseteq QueryableIds(store', WhereFilter([kind |-> "absent", map |-> EmptyMap]))
       /\ \A v \in DOMAIN store :
             Superseded(store, v) => v \in QueryableIds(store', NoWhere)]_vars

\* a second run has re-indexed a changed file: the store holds the records of
\* its new fingerprint next to those of the previous one
C38_Witness ==
    /\ runs = 2
    /\ pc = "done"
    /\ \E v, w \in DOMAIN store :
          /\ store[v].metadata.path = store[w].metadata.path
          /\ store[w].metadata.path \in DOMAIN known
          /\ known[store[w].metadata.path].sha256 = store[w].metadata.sha256
          /\ store[v].metadata.sha256 # store[w].metadata.sha256
          /\ w \notin idsAtStart
          /\ v \in idsAtStart
          /\ v \in QueryableIds(store, NoWhere)

\* the run has computed an empty changed subset
EmptyRun == pc # "idle" /\ Diffed /\ s.changed = <<>>

\* nothing to do: no file discovered, or a plain incremental run all of whose
\* discovered fingerprints are the persisted ones
NothingToIndex ==
    /\ pc # "idle" /\ Diffed
    /\ \/ s.files = <<>>
       \/ /\ PlainIncremental
          /\ \A i \in 1..Len(s.files) :
                /\ s.files[i].path \in DOMAIN knownAtStart
                /\ knownAtStart[s.files[i].path].sha256 = s.files[i].sha256

\* C39: a run with nothing to index computes an empty changed subset, and a
\* run whose changed subset is empty makes no embedding-provider call and no
\* col.upsert call, and none of its steps changes the vector store or the
\* table of fingerprints.
C39_EmptyRunChangesNothing ==
    /\ [](NothingToIndex => EmptyRun)
    /\ [](EmptyRun => /\ embedCalls = 0 /\ upsertCalls = 0
                      /\ upsertArgs = <<>> /\ sentIds = {}
                      /\ known = knownAtStart /\ DOMAIN store = idsAtStart)
    /\ [][EmptyRun => store' = store /\ known' = known]_vars

\* a plain incremental run over indexed, unchanged files has finished
C39_Witness ==
    /\ pc = "done"
    /\ PlainIncremental
    /\ s.files # <<>>
    /\ EmptyRun
    /\ "upserted" \in DOMAIN s.stats
    /\ store # <<>>
    /\ DOMAIN known # {}

-----------------------------------------------------------------------------
(* graphs/index_graph.py: two runs of the graph in flight at the same time.
   Each run has its own IndexState; the file system, the table "files" and
   the collection are shared.  A node runs as one step, embed_batch as two:
   up to its await, and from the provider's answer on. *)

ConcRuns == {"r1", "r2"}

NoRun == [pc |-> "idle", s |-> NoState, sent |-> {}, now |-> 0]

RunsIdle == [state |-> "runs", run |-> [r \in ConcRuns |-> NoRun], commits |-> 0]

RunAt(r, node) == cr.state = "runs" /\ cr.run[r].pc = node

\* the requests the callers make: a full run, an incremental run, a forced one
ConcRequests ==
    {[mode |-> "full", force |-> FALSE], [mode |-> "incremental", force |-> FALSE],
     [mode |-> "incremental", force |-> TRUE]}

\* index_graph.ainvoke(state) of run r; r1 names the request that arrives first
ConcInvoke(r, roots, mode, force) ==
    /\ RunAt(r, "idle")
    /\ r = "r2" => cr.run["r1"].pc # "idle"
    /\ cr' = [cr EXCEPT !.run[r].pc = NextNode("START"),
                        !.run[r].s = [NoState EXCEPT !.mode = mode, !.roots = roots,
                                                     !.force_reembed = force]]
    /\ UNCHANGED indexVars
    /\ UNCHANGED <<ck, sc, mg, ws, qr, eb, nz>>

ConcDiscover(r) ==
    /\ RunAt(r, "discover")
    /\ LET files == DiscoverFiles(cr.run[r].s.roots)
       IN cr' = [cr EXCEPT !.run[r].pc = Goto("discover"),
                           !.run[r].s.files = files,
                           !.run[r].s.stats = SetStat(@, "discovered", Len(files))]
    /\ UNCHANGED indexVars
    /\ UNCHANGED <<ck, sc, mg, ws, qr, eb, nz>>

ConcDiff(r) ==
    /\ RunAt(r, "diff")
    /\ LET st == cr.run[r].s
           changed == DiffChanged(st.files, st.mode, st.force_reembed, known)
       IN cr' = [cr EXCEPT !.run[r].pc = Goto("diff"),
                           !.run[r].s.changed = changed,
                           !.run[r].s.stats = SetStat(@, "changed", Len(changed))]
    /\ UNCHANGED indexVars
    /\ UNCHANGED <<ck, sc, mg, ws, qr, eb, nz>>

ConcParseChunk(r) ==
    /\ RunAt(r, "parse_chunk")
    /\ LET st == cr.run[r].s
           chunks == ParseChunks(st.changed)
       IN cr' = [cr EXCEPT !.run[r].pc = Goto("parse_chunk"),
                           !.run[r].s.errors = @ \o ParseErrors(st.changed),
                           !.run[r].s.chunks = chunks,
                           !.run[r].s.stats = SetStat(@, "chunks", Len(chunks))]
    /\ UNCHANGED indexVars
    /\ UNCHANGED <<ck, sc, mg, ws, qr, eb, nz>>

\* embed_batch up to its first await, or to its return when there is no chunk
ConcEmbedBatch(r) ==
    /\ RunAt(r, "embed_batch")
    /\ IF cr.run[r].s.chunks = <<>>
       THEN cr' = [cr EXCEPT !.run[r].pc = Goto("embed_batch"),
                             !.run[r].s.embeddings = <<>>]
       ELSE cr' = [cr EXCEPT !.run[r].pc = "embed_await"]
    /\ UNCHANGED indexVars
    /\ UNCHANGED <<ck, sc, mg, ws, qr, eb, nz>>

\* the provider has answered: s["embeddings"] = vecs
ConcEmbedResume(r) ==
    /\ RunAt(r, "embed_await")
    /\ LET st == cr.run[r].s
           texts == [i \in 1..Len(st.chunks) |-> st.chunks[i].text]
       IN cr' = [cr EXCEPT !.run[r].pc = Goto("embed_batch"),
                           !.run[r].s.embeddings = EmbedAll(texts, 1)]
    /\ UNCHANGED indexVars
    /\ UNCHANGED <<ck, sc, mg, ws, qr, eb, nz>>

ConcUpsertVectors(r) ==
    /\ RunAt(r, "upsert_vectors")
    /\ LET st == cr.run[r].s
           ids == UpsertIds(st.chunks)
       IN /\ store' = IF ids # <<>>
                      THEN StoreUpsert(store, UpsertCall(st.chunks, st.embeddings), Len(ids))
                      ELSE store
          /\ cr' = [cr EXCEPT !.run[r].pc = Goto("upsert_vectors"),
                              !.run[r].sent = Range(ids),
                              !.run[r].s.stats = SetStat(@, "upserted", Len(ids))]
    /\ UNCHANGED <<fs, clock, known, pc, s, endpoint, resp, runs, trace, failedAt,
                   knownAtStart, idsAtStart, sentIds, upsertArgs, embedCalls, upsertCalls,
                   prev, modSince>>
    /\ UNCHANGED <<ck, sc, mg, ws, qr, eb, nz>>

\* a commit that replaces the table by the rows of the committing run
ConcCommitRunReplacing(r) ==
    /\ RunAt(r, "commit_run")
    /\ LET st == cr.run[r].s
           files == CommitSet(st.changed, st.errors)
       IN known' = CommitRowsReplacing(known, files, cr.commits + 1, Len(files))
    /\ cr' = [cr EXCEPT !.run[r].pc = Goto("commit_run"),
                        !.run[r].now = cr.commits + 1,
                        !.commits = @ + 1]
    /\ UNCHANGED <<fs, clock, store, pc, s, endpoint, resp, runs, trace, failedAt,
                   knownAtStart, idsAtStart, sentIds, upsertArgs, embedCalls, upsertCalls,
                   prev, modSince>>
    /\ UNCHANGED <<ck, sc, mg, ws, qr, eb, nz>>

\* one transaction: the rows of the run's changed files, then db.commit()
ConcCommitRun(r) ==
    /\ RunAt(r, "commit_run")
    /\ LET st == cr.run[r].s
           files == CommitSet(st.changed, st.errors)
       IN known' = CommitRows(known, files, cr.commits + 1, Len(files))
    /\ cr' = [cr EXCEPT !.run[r].pc = Goto("commit_run"),
                        !.run[r].now = cr.commits + 1,
                        !.commits = @ + 1]
    /\ UNCHANGED <<fs, clock, store, pc, s, endpoint, resp, runs, trace, failedAt,
                   knownAtStart, idsAtStart, sentIds, upsertArgs, embedCalls, upsertCalls,
                   prev, modSince>>
    /\ UNCHANGED <<ck, sc, mg, ws, qr, eb, nz>>

InitConc ==
    /\ fs = InitFiles
    /\ IndexIdle
    /\ ck = NoCall /\ sc = NoCall /\ mg = NoCall /\ ws = NoCall /\ qr = NoCall
    /\ eb = NoCall /\ nz = NoCall
    /\ cr = RunsIdle

BothDone == cr.state = "runs" /\ \A r \in ConcRuns : cr.run[r].pc = "done"

\* the file every existing root covers
SharedPath == "docs/sub/b.md"

\* the shared file may change between any two steps of the runs
NextConc ==
    \/ \E c \in Contents : WriteFile(SharedPath, c)
    \/ RemoveFile(SharedPath)
    \/ ChmodFile(SharedPath)
    \/ \E r \in ConcRuns, roots \in RootLists, req \in ConcRequests :
          ConcInvoke(r, roots, req.mode, req.force)
    \/ \E r \in ConcRuns : ConcDiscover(r)
    \/ \E r \in ConcRuns : ConcDiff(r)
    \/ \E r \in ConcRuns : ConcParseChunk(r)
    \/ \E r \in ConcRuns : ConcEmbedBatch(r)
    \/ \E r \in ConcRuns : ConcEmbedResume(r)
    \/ \E r \in ConcRuns : ConcUpsertVectors(r)
    \/ \E r \in ConcRuns : ConcCommitRun(r)

SpecConc == InitConc /\ [][NextConc]_vars

\* C35: when two index runs are interleaved between their stages and at the
\* embedding call, and both have completed, every path either run committed
\* has its row in the table "files" (the table is keyed by path), that row is
\* as a whole the row one of the two runs wrote for a file record it had
\* discovered for the path, and every vector id either run upserted is in the
\* vector store.
C35_NoLostOrTornUpdate ==
    BothDone
    => /\ \A r \in ConcRuns : \A i \in 1..Len(cr.run[r].s.changed) :
             LET p == cr.run[r].s.changed[i].path
             IN /\ p \in DOMAIN known
                /\ \E q \in ConcRuns : \E j \in 1..Len(cr.run[q].s.files) :
                      /\ cr.run[q].s.files[j].path = p
                      /\ cr.run[q].s.files[j] \in Range(cr.run[q].s.changed)
                      /\ known[p] = FileRow(cr.run[q].s.files[j], cr.run[q].now)
       /\ \A r \in ConcRuns : cr.run[r].sent \subseteq DOMAIN store

\* both runs have completed after committing the same path under different
\* fingerprints, the second to start its commit having diffed before the
\* first committed
C35_Witness ==
    /\ BothDone
    /\ cr.run["r1"].sent # {} /\ cr.run["r2"].sent # {}
    /\ cr.run["r1"].sent # cr.run["r2"].sent
    /\ \E i \in 1..Len(cr.run["r1"].s.changed), j \in 1..Len(cr.run["r2"].s.changed) :
          /\ cr.run["r1"].s.changed[i].path = cr.run["r2"].s.changed[j].path
          /\ cr.run["r1"].s.changed[i].sha256 # cr.run["r2"].s.changed[j].sha256
          /\ cr.run["r1"].now < cr.run["r2"].now
          /\ known[cr.run["r1"].s.changed[i].path].sha256 = cr.run["r2"].s.changed[j].sha256

====
